---- MODULE Spec2Model ----
(***************************************************************************)
(* A model of the chat core of the customer-support agent backend:        *)
(*   - the sliding-window rate limiter   (backend/app/routes/chat.py)     *)
(*   - the vector index client           (services/qdrant_client.py)      *)
(*   - the chat endpoint and its stream  (routes/chat.py, chat_service.py)*)
(* Time is a logical clock in seconds.  The handlers are coroutines on one *)
(* asyncio event loop: code between two awaits (or yields) is one action.  *)
(***************************************************************************)
EXTENDS Integers, Sequences, FiniteSets, TLC

\* ------------------------------------------------------------------ bounds
\* number of direct check_rate_limit calls in SpecRate
MaxCalls == 12
\* number of clock advances
MaxTicks == 2
\* number of point ids of the vector index
MaxPoints == 2
\* number of (id, embedding, payload) tuples of one upsert_vectors call
MaxBatch == 1
\* the message_limit the bots are configured with
BotLimit == 1
\* number of chunks the chat-completion stream delivers at most
MaxChunks == 1
\* number of clock advances while chat requests are handled
MaxChatTicks == 1
\* number of rows of table messages when a prompt is assembled
MaxRows == 12

\* --------------------------------------------------------- program constants
RATE_LIMIT_WINDOW == 60
MAX_MESSAGES_PER_WINDOW == 10
\* chat_service.py: top N chunks, and the minimum similarity in hundredths
MAX_CONTEXT_CHUNKS == 3
SIMILARITY_THRESHOLD == 60
\* chat_service.py: last N messages to include
MAX_CONVERSATION_HISTORY == 10
\* chat.py get_conversation_history: the default of its parameter limit
HISTORY_LIMIT == 10

Sessions == {"s1", "s2"}
\* the clock advances by one second or by one second less than the window, so
\* that ages of 59, 60 and 61 seconds all occur
TickSteps == {1, RATE_LIMIT_WINDOW - 1}

VARIABLES
    now,               \* datetime.utcnow(), in seconds
    rate_limit_cache,  \* _rate_limit_cache: session_id -> list of timestamps
    admitted,          \* history: session_id -> every timestamp ever admitted
    last,              \* history: the last check_rate_limit call and its result
    everRejected,      \* history: the sessions that had a call rejected
    nCalls,            \* number of direct calls made (SpecRate)
    nTicks,            \* number of clock advances made
    index,             \* the Qdrant collection: point id -> [vector, payload]
    searchOut,         \* what search_vectors returned, when it was the last call
    lastDelete,        \* history: the last delete_vectors call, when it was the last call
    message_count,     \* bots.message_count, per bot
    message_limit,     \* bots.message_limit, per bot
    conversations,     \* the rows of table conversations
    messages,          \* the rows of table messages, in insertion order
    pc,                \* per chat request: where its coroutine is suspended
    req,               \* per chat request: the ChatRequest
    bot,               \* per chat request: the Bot object its session loaded
    conversation,      \* per chat request: the id of its Conversation
    context,           \* per chat request: the chunks retrieve_context returned
    full_response,     \* per chat request: stream_response's accumulator
    events,            \* per chat request: the SSE events yielded to the client
    delivered,         \* per chat request: chunks its completion stream delivered
    trace,             \* history, per chat request: gate, calls, writes, errors
    texts,             \* generate_embeddings: its argument
    embed_pc,          \* generate_embeddings: "call", "loop", "returned", "raised"
    batch_start,       \* generate_embeddings: i, the offset of the next batch
    all_embeddings,    \* generate_embeddings: the vectors collected so far
    embed_result,      \* generate_embeddings: the list it returned
    requests,          \* history: the inputs of the embeddings.create calls issued
    source_text,       \* create_chunks: its argument text, as pieces
    chunks,            \* create_chunks: the list it returned, once called
    ingest,            \* per ingestion request: the frame of ingest_content
    prompt_in,         \* prompt assembly: the stored rows, the question, the context
    prompt             \* prompt assembly: the message list built, once called

rateVars == <<now, rate_limit_cache, admitted, last, everRejected, nCalls, nTicks>>
indexVars == <<index, searchOut, lastDelete>>
dbVars == <<message_count, message_limit, conversations, messages>>
turnVars == <<pc, req, bot, conversation, context, full_response, events,
              delivered, trace>>
chatVars == <<dbVars, turnVars>>
embedVars == <<texts, embed_pc, batch_start, all_embeddings, embed_result, requests>>
chunkVars == <<source_text, chunks>>
ingestVars == <<ingest>>
promptVars == <<prompt_in, prompt>>
serviceVars == <<embedVars, chunkVars, ingestVars, promptVars>>
vars == <<rateVars, indexVars, chatVars, serviceVars>>

\* ------------------------------------------------------------ rate limiter
\* _rate_limit_cache[session_id] after lines 44-45 (a missing key reads as [])
CacheGet(cache, s) == IF s \in DOMAIN cache THEN cache[s] ELSE <<>>

\* line 41: window_start = now - timedelta(seconds=RATE_LIMIT_WINDOW)
WindowStart(t) == t - RATE_LIMIT_WINDOW

KeepsNewerOrEqual(ts, t) == ts >= WindowStart(t)
\* line 50: the test of the list comprehension, ts > window_start
Keeps(ts, t) == ts > WindowStart(t)

\* line 50: recent_requests = [ts for ts in recent_requests if ts > window_start]
Prune(reqs, t) == SelectSeq(reqs, LAMBDA ts : Keeps(ts, t))

LimitReachedOffByOne(recent) == Len(recent) > MAX_MESSAGES_PER_WINDOW
\* line 54: len(recent_requests) >= MAX_MESSAGES_PER_WINDOW
LimitReached(recent) == Len(recent) >= MAX_MESSAGES_PER_WINDOW

\* the first component of check_rate_limit's result
IsAllowed(cache, s, t) == ~LimitReached(Prune(CacheGet(cache, s), t))

CacheAfterCheckShared(cache, s, t) ==
    LET recent == Prune(CacheGet(cache, s), t)
    IN  [x \in (DOMAIN cache) \cup {s} |->
           IF LimitReached(recent) THEN recent ELSE Append(recent, t)]
CacheAfterCheckForgets(cache, s, t) ==
    [x \in (DOMAIN cache) \cup {s} |->
       IF x = s THEN Prune(CacheGet(cache, s), t) ELSE cache[x]]
CacheAfterCheckRecordsRejected(cache, s, t) ==
    LET recent == Prune(CacheGet(cache, s), t)
    IN  [x \in (DOMAIN cache) \cup {s} |->
           IF x = s THEN Append(recent, t) ELSE cache[x]]
\* _rate_limit_cache after check_rate_limit(s) at time t (lines 44-58)
CacheAfterCheck(cache, s, t) ==
    LET recent == Prune(CacheGet(cache, s), t)
        kept   == [x \in (DOMAIN cache) \cup {s} |->
                     IF x = s THEN recent ELSE cache[x]]
    IN  IF LimitReached(recent)
        THEN kept
        ELSE [kept EXCEPT ![s] = Append(recent, t)]

\* history of admissions after the call
AdmittedAfterCheck(adm, cache, s, t) ==
    IF IsAllowed(cache, s, t) THEN [adm EXCEPT ![s] = Append(@, t)] ELSE adm

NoCall == [s |-> "none", t |-> 0, allowed |-> TRUE, before |-> <<>>]

\* ------------------------------------------------------------ vector index
Bots == {"A", "B"}
PointIds == 1 .. MaxPoints
\* embeddings are unit vectors at 0, 45 and 90 degrees
Vectors == {0, 1, 2}
ChunkIndexes == {0}

Abs(x) == IF x < 0 THEN -x ELSE x

\* cosine similarity of two embeddings, in hundredths (the collection's
\* distance is Distance.COSINE)
Score(q, v) ==
    CASE Abs(q - v) = 0 -> 100
      [] Abs(q - v) = 1 -> 71
      [] OTHER -> 0

\* what a caller may pass as payload: chunk metadata, with or without a key
\* "bot_id" of its own
CallerPayloads ==
    [chunk_index : ChunkIndexes] \cup [chunk_index : ChunkIndexes, bot_id : Bots]

\* the (point_id, embedding, payload) tuples of one upsert_vectors call
VectorTuples == [id : PointIds, vector : Vectors, payload : CallerPayloads]
VectorLists == UNION {[1 .. n -> VectorTuples] : n \in 0 .. MaxBatch}

FullPayloadBotWins(bot_id, payload) ==
    [chunk_index |-> payload.chunk_index, bot_id |-> bot_id]
\* line 169: full_payload = {"bot_id": bot_id, **payload}; a key "bot_id" of
\* payload replaces the argument
FullPayload(bot_id, payload) ==
    [chunk_index |-> payload.chunk_index,
     bot_id |-> IF "bot_id" \in DOMAIN payload THEN payload.bot_id ELSE bot_id]

UpsertPointsFirstOnly(idx, bot_id, vectors) ==
    IF vectors = <<>> THEN idx
    ELSE LET v == Head(vectors)
         IN  [i \in (DOMAIN idx) \cup {v.id} |->
                IF i = v.id
                THEN [vector |-> v.vector, payload |-> FullPayload(bot_id, v.payload)]
                ELSE idx[i]]
\* lines 166-183: the collection after client.upsert(points): insert or
\* replace by id, a later tuple of the list replacing an earlier one
RECURSIVE UpsertPoints(_, _, _)
UpsertPoints(idx, bot_id, vectors) ==
    IF vectors = <<>> THEN idx
    ELSE LET v == Head(vectors)
             point == [vector |-> v.vector,
                       payload |-> FullPayload(bot_id, v.payload)]
             put == [i \in (DOMAIN idx) \cup {v.id} |->
                       IF i = v.id THEN point ELSE idx[i]]
         IN  UpsertPoints(put, bot_id, Tail(vectors))

DeletePointsUnfiltered(idx, bot_id) == <<>>
DeletePointsNone(idx, bot_id) == idx
MatchesAnyBot(idx, i, bot_id) == i \in DOMAIN idx
\* lines 223-230: the filter must=[FieldCondition(key="bot_id", match=bot_id)]
Matches(idx, i, bot_id) == idx[i].payload.bot_id = bot_id

\* the points query_points may rank: the filter's, at or above the threshold
Candidates(idx, bot_id, q, threshold) ==
    {i \in DOMAIN idx : Matches(idx, i, bot_id) /\ Score(q, idx[i].vector) >= threshold}

Min(a, b) == IF a < b THEN a ELSE b

\* lines 220-251: every list search_vectors may return: the best `limit`
\* candidates by descending score (equal scores in any order), formatted
SearchResults(idx, bot_id, q, limit, threshold) ==
    LET cands == Candidates(idx, bot_id, q, threshold)
        n == Min(limit, Cardinality(cands))
        sc(i) == Score(q, idx[i].vector)
    IN  {[k \in 1 .. n |-> [id |-> r[k], score |-> sc(r[k]), payload |-> idx[r[k]].payload]] :
           r \in {r \in [1 .. n -> cands] :
                    /\ \A j, k \in 1 .. n : j < k => r[j] # r[k] /\ sc(r[j]) >= sc(r[k])
                    /\ \A i \in cands : (\A k \in 1 .. n : r[k] # i) =>
                           \A k \in 1 .. n : sc(r[k]) >= sc(i)}}

\* lines 275-287: the collection after client.delete with the bot_id filter
DeletePoints(idx, bot_id) ==
    [i \in {i \in DOMAIN idx : ~Matches(idx, i, bot_id)} |-> idx[i]]

NoSearch == [bot_id |-> "none", results |-> <<>>]
NoDelete == [bot_id |-> "none", before |-> <<>>]

\* ------------------------------------------------------------ chat endpoint
Turns == {1, 2}
Questions == {"q1", "q2"}
\* the chat requests sent: one bot and session, another session, another bot
Requests ==
    {[bot_id |-> "A", session_id |-> "s1", message |-> "q1"],
     [bot_id |-> "A", session_id |-> "s2", message |-> "q2"],
     [bot_id |-> "B", session_id |-> "s1", message |-> "q2"]}
\* the request that arrives first
FirstRequest == [bot_id |-> "A", session_id |-> "s1", message |-> "q1"]
NoRequest == [bot_id |-> "none", session_id |-> "none", message |-> ""]
NoBot == [id |-> "none", message_count |-> 0, message_limit |-> 0]
\* history of a request: the Bot row its gate saw, its rate check, the
\* external calls it issued, the tables it committed to, the stages that
\* raised, how its generation ended, and the system prompt it sent
NoPrompt == [bot_name |-> "", context_text |-> <<>>, instructions |-> <<>>]
NoTrace == [seen |-> NoBot, gate |-> NoCall, calls |-> <<>>, wrote |-> <<>>,
            failed |-> <<>>, ended |-> "no", prompt |-> NoPrompt]

\* the state of the chat tables and requests before any request has arrived
\* generate_embeddings and create_chunks have not been called
NotCalled == [called |-> FALSE, value |-> <<>>]
Jobs == {1, 2}
\* the frame of an ingestion request that has not arrived; `before` is the
\* collection when it arrived, `overlap` whether another ingestion of the same
\* bot was in progress at any time during it
NoIngest == [pc |-> "idle", bot_id |-> "none", source |-> "", text |-> <<>>,
             chunks |-> <<>>, calls |-> <<>>, before |-> <<>>, overlap |-> FALSE,
             status |-> 0, detail |-> "", chunk_count |-> 0, vector_count |-> 0]
EmbedIdle ==
    /\ texts = <<>> /\ embed_pc = "idle" /\ batch_start = 0
    /\ all_embeddings = <<>> /\ embed_result = <<>> /\ requests = <<>>
IngestIdle == ingest = [j \in Jobs |-> NoIngest]
\* no prompt is being assembled
NoPromptInput == [rows |-> <<>>, conversation_id |-> -1, question |-> "",
                  bot_name |-> "", context |-> <<>>]
PromptIdle == prompt_in = NoPromptInput /\ prompt = NotCalled
ServicesIdle ==
    /\ EmbedIdle
    /\ source_text = <<>> /\ chunks = NotCalled
    /\ IngestIdle
    /\ PromptIdle

ChatIdle ==
    /\ message_count = [b \in Bots |-> 0]
    /\ message_limit = [b \in Bots |-> BotLimit]
    /\ conversations = {}
    /\ messages = <<>>
    /\ pc = [p \in Turns |-> "idle"]
    /\ req = [p \in Turns |-> NoRequest]
    /\ bot = [p \in Turns |-> NoBot]
    /\ conversation = [p \in Turns |-> -1]
    /\ context = [p \in Turns |-> <<>>]
    /\ full_response = [p \in Turns |-> ""]
    /\ events = [p \in Turns |-> <<>>]
    /\ delivered = [p \in Turns |-> 0]
    /\ trace = [p \in Turns |-> NoTrace]

\* ------------------------------------------------------------------ actions
\* the clock advances
Tick(d) ==
    /\ nTicks < MaxTicks
    /\ now' = now + d
    /\ nTicks' = nTicks + 1
    /\ UNCHANGED <<rate_limit_cache, admitted, last, everRejected, nCalls>>
    /\ UNCHANGED <<indexVars, chatVars, serviceVars>>

\* one call check_rate_limit(s)
RateCall(s) ==
    /\ nCalls < MaxCalls
    /\ nCalls' = nCalls + 1
    /\ rate_limit_cache' = CacheAfterCheck(rate_limit_cache, s, now)
    /\ admitted' = AdmittedAfterCheck(admitted, rate_limit_cache, s, now)
    /\ last' = [s |-> s, t |-> now,
                allowed |-> IsAllowed(rate_limit_cache, s, now),
                before |-> admitted[s]]
    /\ everRejected' = IF IsAllowed(rate_limit_cache, s, now)
                       THEN everRejected ELSE everRejected \cup {s}
    /\ UNCHANGED <<now, nTicks>>
    /\ UNCHANGED <<indexVars, chatVars, serviceVars>>

\* nothing has been called yet: empty cache, empty index, no chat request
CoreIdle ==
    /\ now = 0
    /\ rate_limit_cache = <<>>
    /\ admitted = [s \in Sessions |-> <<>>]
    /\ last = NoCall
    /\ everRejected = {}
    /\ nCalls = 0
    /\ nTicks = 0
    /\ index = <<>>
    /\ searchOut = NoSearch
    /\ lastDelete = NoDelete
    /\ ChatIdle

RateInit == CoreIdle /\ ServicesIdle

RateNext ==
    \/ \E d \in TickSteps : Tick(d)
    \/ \E s \in Sessions : RateCall(s)

SpecRate == RateInit /\ [][RateNext]_vars

\* ------------------------------------------------- vector index operations
SearchLimits == {1, MAX_CONTEXT_CHUNKS}
SearchThresholds == {SIMILARITY_THRESHOLD, 0}

\* upsert_vectors(bot_id, vectors); the client call is synchronous, so the
\* whole function runs without suspension
UpsertVectors(bot_id, vectors) ==
    /\ index' = UpsertPoints(index, bot_id, vectors)
    /\ searchOut' = NoSearch
    /\ lastDelete' = NoDelete
    /\ UNCHANGED <<rateVars, chatVars, serviceVars>>

\* search_vectors(bot_id, query_embedding, limit, similarity_threshold)
SearchVectors(bot_id, q, limit, threshold) ==
    /\ \E res \in SearchResults(index, bot_id, q, limit, threshold) :
           searchOut' = [bot_id |-> bot_id, results |-> res]
    /\ lastDelete' = NoDelete
    /\ UNCHANGED index
    /\ UNCHANGED <<rateVars, chatVars, serviceVars>>

\* delete_vectors(bot_id)
DeleteVectors(bot_id) ==
    /\ index' = DeletePoints(index, bot_id)
    /\ searchOut' = NoSearch
    /\ lastDelete' = [bot_id |-> bot_id, before |-> index]
    /\ UNCHANGED <<rateVars, chatVars, serviceVars>>

IndexNext ==
    \/ \E b \in Bots, vs \in VectorLists : UpsertVectors(b, vs)
    \/ \E b \in Bots, q \in Vectors, l \in SearchLimits, th \in SearchThresholds :
          SearchVectors(b, q, l, th)
    \/ \E b \in Bots : DeleteVectors(b)

SpecIndex == RateInit /\ [][IndexNext]_vars


\* ----------------------------------------------------- chat endpoint steps
\* Each action is the completion of the operation a request's coroutine awaits
\* (a database statement, an external call, the client taking an event)
\* followed by the synchronous code up to its next await or yield.

QuotaReachedStrict(b) == b.message_count > b.message_limit
\* chat.py line 264: bot.message_count >= bot.message_limit
QuotaReached(b) == b.message_count >= b.message_limit

\* chat.py lines 199, 202, 218: an SSE event carrying text
Sse(text) == "data: " \o text \o "\n\n"
DoneEvent == Sse("[DONE]")
\* chat.py line 218: f"data: Error: {str(e)}\n\n"
ErrorEvent(e) == Sse("Error: " \o e)
\* chat_service.py line 199
Apology(e) == "I apologize, but I encountered an error: " \o e

\* the content of the k-th chunk the completion stream delivers: empty, or
\* the next piece of the answer
Piece(k) == CASE k = 1 -> "a" [] k = 2 -> "b" [] k = 3 -> "c" [] OTHER -> "d"
Deltas(k) == {"", Piece(k)}
\* str(e) of the exceptions of the external calls and of the database
Exceptions == {"embedding", "search", "openai", "db"}

AccumulateLast(full, token) == token
\* chat.py line 197: full_response += token
Accumulate(full, token) == full \o token

StreamExceptSilent(evs, e) == evs
\* chat.py lines 216-218: the except branch of stream_response up to its first
\* yield: the events after the error event is yielded
StreamExcept(evs, e) == Append(evs, ErrorEvent(e))

SavedRowsUserOnly(conv, user_message, assistant_message, p) ==
    <<[conversation_id |-> conv, role |-> "user", content |-> user_message, turn |-> p]>>
SavedRowsTwice(conv, user_message, assistant_message, p) ==
    <<[conversation_id |-> conv, role |-> "user", content |-> user_message, turn |-> p],
      [conversation_id |-> conv, role |-> "assistant", content |-> assistant_message, turn |-> p],
      [conversation_id |-> conv, role |-> "user", content |-> user_message, turn |-> p],
      [conversation_id |-> conv, role |-> "assistant", content |-> assistant_message, turn |-> p]>>
\* chat.py lines 150-167: the rows save_messages adds and commits in one
\* transaction (turn is history: the request that wrote the row)
SavedRows(conv, user_message, assistant_message, p) ==
    <<[conversation_id |-> conv, role |-> "user", content |-> user_message, turn |-> p],
      [conversation_id |-> conv, role |-> "assistant", content |-> assistant_message, turn |-> p]>>

\* chat_service.py line 74: the instruction that fixes the fallback answer
FallbackRefusal ==
    "I don't have that information in my knowledge base. Please contact our support team for assistance."
FallbackInstruction == "If the answer is not in the context, respond: " \o FallbackRefusal
\* chat_service.py lines 71-76: the instructions of every system prompt
Instructions ==
    <<"Answer the user's question using ONLY the context provided above",
      "Be helpful, concise, and friendly",
      FallbackInstruction,
      "Do not make up information or use knowledge outside the provided context",
      "If multiple pieces of context are relevant, synthesize them into a coherent answer">>

\* chat_service.py lines 57-64: context_text: empty without chunks, otherwise
\* a header and one numbered entry per chunk
ContextText(context_chunks) ==
    IF context_chunks = <<>> THEN <<>>
    ELSE <<[line |-> "Context from knowledge base:", n |-> 0, score |-> 0, chunk |-> -1]>> \o
         [i \in DOMAIN context_chunks |->
            [line |-> "entry", n |-> i, score |-> context_chunks[i].score,
             chunk |-> context_chunks[i].payload.chunk_index]]

build_system_promptNoFallback(bot_name, context_chunks) ==
    [bot_name |-> IF bot_name = "" THEN "Assistant" ELSE bot_name,
     context_text |-> ContextText(context_chunks),
     instructions |-> IF context_chunks = <<>> THEN <<>> ELSE Instructions]
\* chat_service.py lines 44-79: the system prompt
build_system_prompt(bot_name, context_chunks) ==
    [bot_name |-> IF bot_name = "" THEN "Assistant" ELSE bot_name,
     context_text |-> ContextText(context_chunks),
     instructions |-> Instructions]

\* generate_query_embedding: the embedding of a question
QueryEmbedding(question) == IF question = "q1" THEN 0 ELSE 2

\* the coroutine of request p has ended: its local objects are gone
Released(p) ==
    /\ bot' = [bot EXCEPT ![p] = NoBot]
    /\ conversation' = [conversation EXCEPT ![p] = -1]
    /\ context' = [context EXCEPT ![p] = <<>>]
    /\ full_response' = [full_response EXCEPT ![p] = ""]
    /\ delivered' = [delivered EXCEPT ![p] = 0]

Called(p, c) == [trace EXCEPT ![p].calls = Append(@, c)]

\* a ChatRequest arrives; the handler awaits the select of the bot
Arrive(p, r) ==
    /\ pc[p] = "idle"
    /\ \A q \in Turns : q < p => pc[q] # "idle"
    /\ p = 1 => r = FirstRequest
    /\ req' = [req EXCEPT ![p] = r]
    /\ pc' = [pc EXCEPT ![p] = "lookup"]
    /\ UNCHANGED <<bot, conversation, context, full_response, events, delivered, trace>>
    /\ UNCHANGED <<rateVars, indexVars, dbVars, serviceVars>>

\* chat.py lines 248-254: the select returns the bot's row
BotLookup(p) ==
    /\ pc[p] = "lookup"
    /\ bot' = [bot EXCEPT ![p] = [id |-> req[p].bot_id,
                                  message_count |-> message_count[req[p].bot_id],
                                  message_limit |-> message_limit[req[p].bot_id]]]
    /\ trace' = [trace EXCEPT ![p].seen = bot'[p]]
    /\ pc' = [pc EXCEPT ![p] = "gate"]
    /\ UNCHANGED <<req, conversation, context, full_response, events, delivered>>
    /\ UNCHANGED <<rateVars, indexVars, dbVars, serviceVars>>

CacheAtQuotaRejectChecked(cache, s, t) == CacheAfterCheck(cache, s, t)
\* chat.py lines 264-269: the rate-limit cache when the quota test raises:
\* check_rate_limit (line 272) has not been called
CacheAtQuotaReject(cache, s, t) == cache

\* chat.py lines 263-269: the bot has reached its message limit: 429
RejectQuota(p) ==
    /\ pc[p] = "gate"
    /\ QuotaReached(bot[p])
    /\ pc' = [pc EXCEPT ![p] = "rejected_quota"]
    /\ rate_limit_cache' = CacheAtQuotaReject(rate_limit_cache, req[p].session_id, now)
    /\ UNCHANGED <<req, bot, conversation, context, full_response, events, delivered, trace>>
    /\ UNCHANGED <<now, admitted, last, everRejected, nCalls, nTicks>>
    /\ UNCHANGED <<indexVars, dbVars, serviceVars>>

\* chat.py lines 271-281: check_rate_limit(session_id), then 429 or the
\* select of get_or_create_conversation
RateGate(p) ==
    /\ pc[p] = "gate"
    /\ ~QuotaReached(bot[p])
    /\ LET s == req[p].session_id
           allowed == IsAllowed(rate_limit_cache, s, now)
           call == [s |-> s, t |-> now, allowed |-> allowed, before |-> admitted[s]]
       IN  /\ rate_limit_cache' = CacheAfterCheck(rate_limit_cache, s, now)
           /\ admitted' = AdmittedAfterCheck(admitted, rate_limit_cache, s, now)
           /\ trace' = [trace EXCEPT ![p].gate = call]
           /\ pc' = [pc EXCEPT ![p] = IF allowed THEN "conv_select" ELSE "rejected_rate"]
    /\ UNCHANGED <<now, last, everRejected, nCalls, nTicks>>
    /\ UNCHANGED <<req, bot, conversation, context, full_response, events, delivered>>
    /\ UNCHANGED <<indexVars, dbVars, serviceVars>>

\* chat.py lines 80-86: the conversations of this bot and session
Found(p) ==
    {c \in conversations :
        c.bot_id = bot[p].id /\ c.session_id = req[p].session_id}

\* chat.py lines 80-98: the select returns; scalar_one_or_none gives the one
\* conversation, or none (a new one is added and its commit awaited), or
\* raises when there are several
ConvSelect(p) ==
    /\ pc[p] = "conv_select"
    /\ IF Cardinality(Found(p)) = 1
       THEN /\ conversation' = [conversation EXCEPT ![p] = (CHOOSE c \in Found(p) : TRUE).id]
            /\ pc' = [pc EXCEPT ![p] = "history"]
       ELSE /\ pc' = [pc EXCEPT ![p] = IF Found(p) = {} THEN "conv_commit" ELSE "failed_500"]
            /\ UNCHANGED conversation
    /\ UNCHANGED <<req, bot, context, full_response, events, delivered, trace>>
    /\ UNCHANGED <<rateVars, indexVars, dbVars, serviceVars>>

\* chat.py lines 93-100: the new conversation is committed
ConvCommit(p) ==
    /\ pc[p] = "conv_commit"
    /\ conversations' = conversations \cup
          {[id |-> p, bot_id |-> bot[p].id, session_id |-> req[p].session_id]}
    /\ conversation' = [conversation EXCEPT ![p] = p]
    /\ trace' = [trace EXCEPT ![p].wrote = Append(@, "conversation")]
    /\ pc' = [pc EXCEPT ![p] = "history"]
    /\ UNCHANGED <<req, bot, context, full_response, events, delivered>>
    /\ UNCHANGED <<message_count, message_limit, messages>>
    /\ UNCHANGED <<rateVars, indexVars, serviceVars>>

\* chat.py lines 284-295, chat_service.py lines 165, 124, embeddings.py line
\* 177: the history is read, the StreamingResponse returned, and the stream
\* starts: retrieve_context awaits the query embedding
LoadHistory(p) ==
    /\ pc[p] = "history"
    /\ trace' = Called(p, "embedding")
    /\ pc' = [pc EXCEPT ![p] = "embedding"]
    /\ UNCHANGED <<req, bot, conversation, context, full_response, events, delivered>>
    /\ UNCHANGED <<rateVars, indexVars, dbVars, serviceVars>>

\* the stream's except branch is entered with exception e at stage `stage`
Raised(p, stage, e) ==
    /\ events' = [events EXCEPT ![p] = StreamExcept(@, e)]
    /\ pc' = [pc EXCEPT ![p] = "err_sent"]
    /\ UNCHANGED <<req, bot, conversation, context, full_response, delivered>>

\* embeddings.py lines 187-189: the embedding call raises; nothing catches it
\* before stream_response (chat.py line 216)
EmbedFail(p) ==
    /\ pc[p] = "embedding"
    /\ Raised(p, "embedding", "embedding")
    /\ trace' = [trace EXCEPT ![p].failed = Append(@, "embedding")]
    /\ UNCHANGED <<rateVars, indexVars, dbVars, serviceVars>>

\* qdrant_client.py lines 253-255: the embedding returns and the (synchronous)
\* search raises
SearchFail(p) ==
    /\ pc[p] = "embedding"
    /\ Raised(p, "search", "search")
    /\ trace' = [trace EXCEPT ![p].calls = Append(@, "search"),
                              ![p].failed = Append(@, "search")]
    /\ UNCHANGED <<rateVars, indexVars, dbVars, serviceVars>>

\* chat_service.py lines 124-189: the embedding returns, the search returns
\* its results, the prompt is built and the chat completion requested
Retrieved(p) ==
    /\ pc[p] = "embedding"
    /\ \E res \in SearchResults(index, bot[p].id, QueryEmbedding(req[p].message),
                                MAX_CONTEXT_CHUNKS, SIMILARITY_THRESHOLD) :
          /\ context' = [context EXCEPT ![p] = res]
          /\ trace' = [trace EXCEPT ![p].calls = @ \o <<"search", "chat">>,
                                    ![p].prompt = build_system_prompt(bot[p].id, res)]
    /\ pc' = [pc EXCEPT ![p] = "creating"]
    /\ UNCHANGED <<req, bot, conversation, full_response, events, delivered>>
    /\ UNCHANGED <<rateVars, indexVars, dbVars, serviceVars>>

\* chat_service.py line 183 returns the stream; line 191 awaits its first chunk
CreateOk(p) ==
    /\ pc[p] = "creating"
    /\ pc' = [pc EXCEPT ![p] = "streaming"]
    /\ UNCHANGED <<req, bot, conversation, context, full_response, events, delivered, trace>>
    /\ UNCHANGED <<rateVars, indexVars, dbVars, serviceVars>>

\* chat_service.py lines 197-199 and chat.py lines 197-199: the provider
\* fails; generate_response yields its apology, which is streamed as a token
ProviderFail(p) ==
    /\ pc[p] \in {"creating", "streaming"}
    /\ full_response' = [full_response EXCEPT ![p] = Accumulate(@, Apology("openai"))]
    /\ events' = [events EXCEPT ![p] = Append(@, Sse(Apology("openai")))]
    /\ trace' = [trace EXCEPT ![p].failed = Append(@, "openai"), ![p].ended = "failed"]
    /\ delivered' = [delivered EXCEPT ![p] = 0]
    /\ pc' = [pc EXCEPT ![p] = "apology_sent"]
    /\ UNCHANGED <<req, bot, conversation, context>>
    /\ UNCHANGED <<rateVars, indexVars, dbVars, serviceVars>>

\* chat_service.py lines 191-193 and chat.py lines 196-199: the stream
\* delivers a chunk; a non-empty delta is yielded, accumulated and streamed
NextChunk(p, d) ==
    /\ pc[p] = "streaming"
    /\ delivered[p] < MaxChunks
    /\ d \in Deltas(delivered[p] + 1)
    /\ delivered' = [delivered EXCEPT ![p] = @ + 1]
    /\ IF d # ""
       THEN /\ full_response' = [full_response EXCEPT ![p] = Accumulate(@, d)]
            /\ events' = [events EXCEPT ![p] = Append(@, Sse(d))]
       ELSE UNCHANGED <<full_response, events>>
    /\ UNCHANGED <<pc, req, bot, conversation, context, trace>>
    /\ UNCHANGED <<rateVars, indexVars, dbVars, serviceVars>>

\* chat_service.py line 195 and chat.py line 202: the model completes, the
\* generator ends and the completion signal is yielded
StreamEnd(p) ==
    /\ pc[p] = "streaming"
    /\ events' = [events EXCEPT ![p] = Append(@, DoneEvent)]
    /\ trace' = [trace EXCEPT ![p].ended = "natural"]
    /\ delivered' = [delivered EXCEPT ![p] = 0]
    /\ pc' = [pc EXCEPT ![p] = "done_sent"]
    /\ UNCHANGED <<req, bot, conversation, context, full_response>>
    /\ UNCHANGED <<rateVars, indexVars, dbVars, serviceVars>>

\* chat.py line 202: after the apology the generator ends and the completion
\* signal is yielded
ApologyResume(p) ==
    /\ pc[p] = "apology_sent"
    /\ events' = [events EXCEPT ![p] = Append(@, DoneEvent)]
    /\ pc' = [pc EXCEPT ![p] = "done_sent"]
    /\ UNCHANGED <<req, bot, conversation, context, full_response, delivered, trace>>
    /\ UNCHANGED <<rateVars, indexVars, dbVars, serviceVars>>

\* chat.py lines 205-209: save_messages commits; message_count is incremented
\* on the loaded Bot object and its commit awaited
SaveCommit(p) ==
    /\ pc[p] = "done_sent"
    /\ messages' = messages \o
          SavedRows(conversation[p], req[p].message, full_response[p], p)
    /\ bot' = [bot EXCEPT ![p].message_count = @ + 1]
    /\ trace' = [trace EXCEPT ![p].wrote = Append(@, "messages")]
    /\ pc' = [pc EXCEPT ![p] = "counting"]
    /\ UNCHANGED <<req, conversation, context, full_response, events, delivered>>
    /\ UNCHANGED <<message_count, message_limit, conversations>>
    /\ UNCHANGED <<rateVars, indexVars, serviceVars>>

\* chat.py lines 205, 216-218: the commit of save_messages raises
SaveFail(p) ==
    /\ pc[p] = "done_sent"
    /\ Raised(p, "save", "db")
    /\ trace' = [trace EXCEPT ![p].failed = Append(@, "save")]
    /\ UNCHANGED <<rateVars, indexVars, dbVars, serviceVars>>

\* chat.py lines 208-214: the commit writes the Bot object's message_count
CountCommit(p) ==
    /\ pc[p] = "counting"
    /\ message_count' = [message_count EXCEPT ![bot[p].id] = bot[p].message_count]
    /\ trace' = [trace EXCEPT ![p].wrote = Append(@, "count")]
    /\ pc' = [pc EXCEPT ![p] = "finished"]
    /\ Released(p)
    /\ UNCHANGED <<req, events>>
    /\ UNCHANGED <<message_limit, conversations, messages>>
    /\ UNCHANGED <<rateVars, indexVars, serviceVars>>

\* chat.py lines 209, 216-218: the commit of the count raises
CountFail(p) ==
    /\ pc[p] = "counting"
    /\ Raised(p, "count", "db")
    /\ trace' = [trace EXCEPT ![p].failed = Append(@, "count")]
    /\ UNCHANGED <<rateVars, indexVars, dbVars, serviceVars>>

StreamExceptNoEnd(evs) == evs
\* chat.py line 219: the events after the except branch's completion signal
StreamExceptEnd(evs) == Append(evs, DoneEvent)

\* chat.py line 219: after the error event the completion signal is yielded
\* and the generator ends
ErrorResume(p) ==
    /\ pc[p] = "err_sent"
    /\ events' = [events EXCEPT ![p] = StreamExceptEnd(@)]
    /\ pc' = [pc EXCEPT ![p] = "finished_err"]
    /\ Released(p)
    /\ UNCHANGED <<req, trace>>
    /\ UNCHANGED <<rateVars, indexVars, dbVars, serviceVars>>

CancelRowsPartial(conv, user_message, partial, p) ==
    SavedRows(conv, user_message, partial, p)
\* chat.py lines 194-219: the rows stream_response stores when its task is
\* cancelled: none (the cancellation is no Exception, so it leaves the try
\* body past save_messages and past the except branch; there is no finally)
CancelRows(conv, user_message, partial, p) == <<>>

\* the states in which the response stream is open
StreamOpen == {"embedding", "creating", "streaming", "apology_sent", "done_sent",
               "counting", "err_sent"}

\* the client disconnects: the stream's task is cancelled at its await or
\* yield (CancelledError is not an Exception, line 216 does not catch it)
Disconnect(p) ==
    /\ pc[p] \in StreamOpen
    /\ pc' = [pc EXCEPT ![p] = "cancelled"]
    /\ messages' = messages \o
          CancelRows(conversation[p], req[p].message, full_response[p], p)
    /\ Released(p)
    /\ UNCHANGED <<req, events, trace>>
    /\ UNCHANGED <<rateVars, indexVars, message_count, message_limit, conversations, serviceVars>>

\* the steps of request p's coroutine
TurnStep(p) ==
    \/ BotLookup(p) \/ RejectQuota(p) \/ RateGate(p)
    \/ ConvSelect(p) \/ ConvCommit(p) \/ LoadHistory(p)
    \/ EmbedFail(p) \/ SearchFail(p) \/ Retrieved(p)
    \/ CreateOk(p) \/ ProviderFail(p)
    \/ \E d \in Deltas(delivered[p] + 1) : NextChunk(p, d)
    \/ StreamEnd(p) \/ ApologyResume(p)
    \/ SaveCommit(p) \/ SaveFail(p) \/ CountCommit(p) \/ CountFail(p)
    \/ ErrorResume(p)

\* nine requests of session s1 were admitted at time 0
NineAdmitted == [i \in 1 .. MAX_MESSAGES_PER_WINDOW - 1 |-> 0]

\* Before the requests of the model: either nothing has happened, or session
\* s1 has had nine requests to bot A admitted at time 0, none of which was
\* persisted (their retrieval failed), which left its conversation behind.
\* Bot A holds one indexed chunk.
ChatInit ==
    /\ now = 0 /\ nCalls = 0 /\ nTicks = 0
    /\ last = NoCall /\ everRejected = {}
    /\ \/ /\ rate_limit_cache = <<>>
          /\ admitted = [s \in Sessions |-> <<>>]
          /\ conversations = {}
       \/ /\ rate_limit_cache = [s \in {"s1"} |-> NineAdmitted]
          /\ admitted = [s \in Sessions |-> IF s = "s1" THEN NineAdmitted ELSE <<>>]
          /\ conversations = {[id |-> 0, bot_id |-> "A", session_id |-> "s1"]}
    /\ index = [i \in {1} |-> [vector |-> 0, payload |-> FullPayload("A", [chunk_index |-> 0])]]
    /\ searchOut = NoSearch
    /\ lastDelete = NoDelete
    /\ message_count = [b \in Bots |-> 0]
    /\ message_limit = [b \in Bots |-> BotLimit]
    /\ messages = <<>>
    /\ pc = [p \in Turns |-> "idle"]
    /\ req = [p \in Turns |-> NoRequest]
    /\ bot = [p \in Turns |-> NoBot]
    /\ conversation = [p \in Turns |-> -1]
    /\ context = [p \in Turns |-> <<>>]
    /\ full_response = [p \in Turns |-> ""]
    /\ events = [p \in Turns |-> <<>>]
    /\ delivered = [p \in Turns |-> 0]
    /\ trace = [p \in Turns |-> NoTrace]
    /\ ServicesIdle

\* the clock advances by a whole window before a request's rate check
\* (check_rate_limit is the only reader of the clock)
ChatTick ==
    /\ \E p \in Turns : pc[p] = "gate"
    /\ nTicks < MaxChatTicks
    /\ now' = now + RATE_LIMIT_WINDOW
    /\ nTicks' = nTicks + 1
    /\ UNCHANGED <<rate_limit_cache, admitted, last, everRejected, nCalls>>
    /\ UNCHANGED <<indexVars, chatVars, serviceVars>>

\* the requests of the turns in T are handled concurrently
ChatNext(T) ==
    \/ ChatTick
    \/ \E p \in T, r \in Requests : Arrive(p, r)
    \/ \E p \in T : TurnStep(p)
    \/ \E p \in T : Disconnect(p)

Spec == ChatInit /\ [][ChatNext(Turns)]_vars

RECURSIVE EarlierTurns(_)
\* the rows n earlier, completed turns of session s1 with bot A left in the
\* messages table
EarlierTurns(n) ==
    IF n = 0 THEN <<>> ELSE EarlierTurns(n - 1) \o SavedRows(0, "q1", "a", 0)

\* Before a single request, with idx as the collection: session s1 has had
\* none, nine or ten requests admitted at time 0, and bot A has either
\* answered nothing or answered (and stored) as many turns as its limit allows.
TurnStart(idx) ==
    /\ now = 0 /\ nCalls = 0 /\ nTicks = 0
    /\ last = NoCall /\ everRejected = {}
    /\ \E n \in {0, MAX_MESSAGES_PER_WINDOW - 1, MAX_MESSAGES_PER_WINDOW}, c \in {0, BotLimit} :
          /\ rate_limit_cache =
                IF n = 0 THEN <<>> ELSE [s \in {"s1"} |-> [i \in 1 .. n |-> 0]]
          /\ admitted = [s \in Sessions |-> IF s = "s1" THEN [i \in 1 .. n |-> 0] ELSE <<>>]
          /\ message_count = [b \in Bots |-> IF b = "A" THEN c ELSE 0]
          /\ messages = EarlierTurns(c)
          /\ conversations =
                IF n = 0 /\ c = 0 THEN {}
                ELSE {[id |-> 0, bot_id |-> "A", session_id |-> "s1"]}
    /\ index = idx
    /\ searchOut = NoSearch
    /\ lastDelete = NoDelete
    /\ message_limit = [b \in Bots |-> BotLimit]
    /\ pc = [p \in Turns |-> "idle"]
    /\ req = [p \in Turns |-> NoRequest]
    /\ bot = [p \in Turns |-> NoBot]
    /\ conversation = [p \in Turns |-> -1]
    /\ context = [p \in Turns |-> <<>>]
    /\ full_response = [p \in Turns |-> ""]
    /\ events = [p \in Turns |-> <<>>]
    /\ delivered = [p \in Turns |-> 0]
    /\ trace = [p \in Turns |-> NoTrace]
    /\ ServicesIdle

\* bot A holds one indexed chunk
LiveInit ==
    TurnStart([i \in {1} |-> [vector |-> 0, payload |-> FullPayload("A", [chunk_index |-> 0])]])

\* One request whose awaited operations all complete: every database
\* statement and external call eventually returns or raises, and the event
\* loop resumes the coroutine.
SpecLive == LiveInit /\ [][ChatNext({1})]_vars /\ WF_vars(TurnStep(1))

\* the collections a question to bot A may meet: no point at all, a point of
\* bot B only, or one point of bot A at 0, 45 or 90 degrees from the question
AnswerIndexes ==
    {<<>>} \cup
    {[i \in {1} |-> [vector |-> v, payload |-> FullPayload(b, [chunk_index |-> 0])]] :
        v \in Vectors, b \in Bots}
AnswerInit == \E idx \in AnswerIndexes : TurnStart(idx)

\* one request to bot A, whatever the collection holds
SpecAnswer == AnswerInit /\ [][ChatNext({1})]_vars

\* check_rate_limit has been called nine times for session s1 at time 0, all
\* admitted, and is called further
RateBusyInit ==
    /\ now = 0 /\ last = NoCall /\ everRejected = {} /\ nTicks = 0
    /\ rate_limit_cache = [s \in {"s1"} |-> NineAdmitted]
    /\ admitted = [s \in Sessions |-> IF s = "s1" THEN NineAdmitted ELSE <<>>]
    /\ nCalls = Len(NineAdmitted)
    /\ index = <<>> /\ searchOut = NoSearch /\ lastDelete = NoDelete
    /\ ChatIdle
    /\ ServicesIdle

SpecRateBusy == RateBusyInit /\ [][RateNext]_vars

\* ----------------------------------------------------- generate_embeddings
\* embeddings.py line 26
BATCH_SIZE == 100
\* the longest list of texts embedded
MaxTexts == 201
\* the j-th text of the k-th list of n texts
TextList(n, k) == [j \in 1 .. n |-> (j * k) % 3]
\* the vector the embedding model computes for a text
Embedding(t) == 10 + t
BatchOneMore(ts, i) == SubSeq(ts, i + 1, Min(i + BATCH_SIZE + 1, Len(ts)))
\* embeddings.py line 69: texts[i : i + BATCH_SIZE]
Batch(ts, i) == SubSeq(ts, i + 1, Min(i + BATCH_SIZE, Len(ts)))
\* embeddings.py lines 79-85: the embeddings of response.data, one item per
\* input of the request, in input order
BatchEmbeddings(batch) == [j \in DOMAIN batch |-> Embedding(batch[j])]

BatchFailedReturnsPartial(collected) == [pc |-> "returned", result |-> collected]
\* embeddings.py lines 93-95: the call for a batch raised: logged, re-raised
BatchFailed(collected) == [pc |-> "raised", result |-> <<>>]

\* embeddings.py lines 60-68: generate_embeddings is called; an empty list
\* returns [] at once, otherwise the request for the first batch is awaited
EmbedCall ==
    /\ embed_pc = "call"
    /\ embed_pc' = IF texts = <<>> THEN "returned" ELSE "loop"
    /\ requests' = IF texts = <<>> THEN requests
                   ELSE Append(requests, Batch(texts, batch_start))
    /\ UNCHANGED <<texts, batch_start, all_embeddings, embed_result>>
    /\ UNCHANGED <<rateVars, indexVars, chatVars, chunkVars, ingestVars, promptVars>>

\* embeddings.py lines 79-98: the request for the batch at batch_start
\* returns; its embeddings are appended; the next batch is requested, or,
\* after the last batch, all_embeddings is returned
BatchOk ==
    /\ embed_pc = "loop"
    /\ LET collected == all_embeddings \o BatchEmbeddings(Batch(texts, batch_start))
           next == batch_start + BATCH_SIZE
       IN  /\ all_embeddings' = collected
           /\ batch_start' = next
           /\ IF next >= Len(texts)
              THEN /\ embed_pc' = "returned" /\ embed_result' = collected
                   /\ UNCHANGED requests
              ELSE /\ requests' = Append(requests, Batch(texts, next))
                   /\ UNCHANGED <<embed_pc, embed_result>>
    /\ UNCHANGED texts
    /\ UNCHANGED <<rateVars, indexVars, chatVars, chunkVars, ingestVars, promptVars>>

\* embeddings.py lines 79, 93-95: the request for the batch at batch_start
\* raises
BatchFail ==
    /\ embed_pc = "loop"
    /\ embed_pc' = BatchFailed(all_embeddings).pc
    /\ embed_result' = BatchFailed(all_embeddings).result
    /\ UNCHANGED <<texts, batch_start, all_embeddings, requests>>
    /\ UNCHANGED <<rateVars, indexVars, chatVars, chunkVars, ingestVars, promptVars>>

\* a call of generate_embeddings with a list of up to MaxTexts texts
EmbedInit ==
    /\ CoreIdle
    /\ \E n \in 0 .. MaxTexts, k \in 1 .. 2 : texts = TextList(n, k)
    /\ embed_pc = "call" /\ batch_start = 0
    /\ all_embeddings = <<>> /\ embed_result = <<>> /\ requests = <<>>
    /\ source_text = <<>> /\ chunks = NotCalled
    /\ IngestIdle
    /\ PromptIdle

EmbedNext == EmbedCall \/ BatchOk \/ BatchFail

SpecEmbed == EmbedInit /\ [][EmbedNext]_vars

\* ------------------------------------------------------------ create_chunks
\* chunker.py lines 15-17
CHUNK_SIZE == 500
CHUNK_OVERLAP == 50
CHARS_PER_TOKEN == 4
\* the most pieces a text has
MaxPieces == 4

\* A text is a sequence of pieces separated by single spaces. A piece is a
\* sentence, one letter repeated and a closing period, len characters in all
\* (of 10, 25, 250 or 501 estimated tokens), or Blank, which stands for more
\* white space at that place.
Letters == {"a", "b"}
SentenceLengths == {43, 103, 1003, 2004}
SentenceTexts == [c : Letters, len : SentenceLengths]
Blank == [c |-> " ", len |-> 0]
Pieces == SentenceTexts \cup {Blank}
SourceTexts == UNION {[1 .. n -> Pieces] : n \in 0 .. MaxPieces}

\* chunker.py line 32: len(text) // CHARS_PER_TOKEN, for a text of n characters
estimate_tokens(n) == n \div CHARS_PER_TOKEN

\* chunker.py lines 50-57: re.split at the white space that follows a period,
\* strip, and drop what is empty: the sentences of the text, without its
\* white space
split_into_sentences(txt) == SelectSeq(txt, LAMBDA piece : piece # Blank)

\* chunker.py line 97: enumerate(sentences); pos is i + 1
Enumerated(sentences) ==
    [i \in DOMAIN sentences |->
        [pos |-> i, c |-> sentences[i].c, len |-> sentences[i].len]]

RECURSIVE SumLen(_)
SumLen(items) == IF items = <<>> THEN 0 ELSE Head(items).len + SumLen(Tail(items))
\* chunker.py lines 116, 150: the length of " ".join(current_chunk)
JoinedLen(items) == IF items = <<>> THEN 0 ELSE SumLen(items) + Len(items) - 1

\* chunker.py lines 116-121, 150-155: the chunk made of current_chunk
JoinedChunk(chs, items) ==
    [text |-> items, index |-> Len(chs), token_count |-> estimate_tokens(JoinedLen(items))]

OversizedSplit(chs, sentence) ==
    LET cut == CHUNK_SIZE * CHARS_PER_TOKEN
        head == [sentence EXCEPT !.len = cut]
        rest == [sentence EXCEPT !.len = sentence.len - cut]
    IN  <<[text |-> <<head>>, index |-> Len(chs), token_count |-> estimate_tokens(cut)],
          [text |-> <<rest>>, index |-> Len(chs) + 1,
           token_count |-> estimate_tokens(rest.len)]>>
\* chunker.py lines 106-110: the chunk appended for a sentence of more than
\* CHUNK_SIZE tokens met with an empty current_chunk: the sentence, whole
Oversized(chs, sentence) ==
    <<[text |-> <<sentence>>, index |-> Len(chs),
       token_count |-> estimate_tokens(sentence.len)]>>

OverlapSentencesNone(current, overlap_tokens) == <<>>
RECURSIVE OverlapSentences(_, _)
\* chunker.py lines 125-134: the trailing sentences of current_chunk taken,
\* last first, while their estimates stay within CHUNK_OVERLAP
OverlapSentences(current, overlap_tokens) ==
    IF current = <<>> THEN <<>>
    ELSE LET prev == current[Len(current)]
             t == estimate_tokens(prev.len)
         IN  IF overlap_tokens + t <= CHUNK_OVERLAP
             THEN Append(OverlapSentences(SubSeq(current, 1, Len(current) - 1),
                                          overlap_tokens + t), prev)
             ELSE <<>>

RECURSIVE SumTokens(_)
SumTokens(items) ==
    IF items = <<>> THEN 0
    ELSE estimate_tokens(Head(items).len) + SumTokens(Tail(items))

\* chunker.py line 138: s in overlap_text, where overlap_text is the overlap
\* sentences each followed by a space: s is a substring exactly when some
\* overlap sentence has s's letter and is at least as long
InOverlapText(sentence, overlap) ==
    \E k \in DOMAIN overlap :
        overlap[k].c = sentence.c /\ overlap[k].len >= sentence.len

\* chunker.py lines 137-142: the sentences the next chunk starts with
Seed(current, overlap) ==
    IF overlap # <<>>
    THEN SelectSeq(current, LAMBDA sentence : InOverlapText(sentence, overlap))
    ELSE <<>>

\* chunker.py lines 98-146: one iteration of the loop over the sentences;
\* st holds chunks, current_chunk and current_tokens
AddSentence(st, sentence) ==
    LET sentence_tokens == estimate_tokens(sentence.len)
    IN  IF sentence_tokens > CHUNK_SIZE /\ st.current_chunk = <<>>
        THEN [st EXCEPT !.chunks = @ \o Oversized(@, sentence)]
        ELSE LET overflow == /\ st.current_tokens + sentence_tokens > CHUNK_SIZE
                             /\ st.current_chunk # <<>>
                 overlap == OverlapSentences(st.current_chunk, 0)
                 closed == IF overflow
                           THEN Append(st.chunks, JoinedChunk(st.chunks, st.current_chunk))
                           ELSE st.chunks
                 kept == IF overflow THEN Seed(st.current_chunk, overlap)
                         ELSE st.current_chunk
                 tokens == IF overflow THEN SumTokens(overlap) ELSE st.current_tokens
             IN  [chunks |-> closed,
                  current_chunk |-> Append(kept, sentence),
                  current_tokens |-> tokens + sentence_tokens]

RECURSIVE ChunkLoop(_, _)
ChunkLoop(st, items) ==
    IF items = <<>> THEN st ELSE ChunkLoop(AddSentence(st, Head(items)), Tail(items))

FinalChunksDropped(chs, current) == chs
\* chunker.py lines 149-155: the final chunk, if current_chunk has content
FinalChunks(chs, current) ==
    IF current # <<>> THEN Append(chs, JoinedChunk(chs, current)) ELSE chs

\* chunker.py lines 76-162: create_chunks(text)
create_chunks(txt) ==
    LET sentences == split_into_sentences(txt)
        st == ChunkLoop([chunks |-> <<>>, current_chunk |-> <<>>, current_tokens |-> 0],
                        Enumerated(sentences))
    IN  IF sentences = <<>> THEN <<>> ELSE FinalChunks(st.chunks, st.current_chunk)

\* create_chunks is called with the text
CreateChunks ==
    /\ ~chunks.called
    /\ chunks' = [called |-> TRUE, value |-> create_chunks(source_text)]
    /\ UNCHANGED source_text
    /\ UNCHANGED <<rateVars, indexVars, chatVars, embedVars, ingestVars, promptVars>>

\* a text of up to MaxPieces pieces is about to be chunked
ChunkInit ==
    /\ CoreIdle
    /\ EmbedIdle
    /\ IngestIdle
    /\ PromptIdle
    /\ source_text \in SourceTexts
    /\ chunks = NotCalled

ChunkNext == CreateChunks

SpecChunk == ChunkInit /\ [][ChunkNext]_vars

\* four-sentence texts of sentences of 25, 30 and 460 estimated tokens:
\* two of them can fill the target, one of them the overlap
ScenarioLengths == {103, 123, 1843}
FourSentenceTexts == [1 .. 4 -> [c : Letters, len : ScenarioLengths]]

\* a text of four sentences is about to be chunked
FourInit ==
    /\ CoreIdle
    /\ EmbedIdle
    /\ IngestIdle
    /\ PromptIdle
    /\ source_text \in FourSentenceTexts
    /\ chunks = NotCalled

SpecFour == FourInit /\ [][ChunkNext]_vars

\* ---------------------------------------------------------------- ingestion
\* admin.py ingest_content.  The Qdrant client is synchronous: delete_vectors
\* and upsert_vectors run to their end without yielding to the event loop, so
\* the handler is suspended only at the bot select, at scrape_url, at the
\* embeddings request and at the commit.

\* the bots addressed: the two bots, and an id that no row has
IngestBots == Bots \cup {"Z"}
\* the texts of a source: none, white space only, one sentence (one chunk),
\* an oversized sentence and a short one (two chunks)
IngestTexts ==
    {<<>>, <<Blank>>, <<[c |-> "a", len |-> 43]>>,
     <<[c |-> "b", len |-> 2004], [c |-> "a", len |-> 43]>>}
\* the source_content of a URL source
Url == <<[c |-> "u", len |-> 20]>>
\* the rows a bot may have: source_type and source_content
BotRows ==
    [source_type : {"text", "file"}, source_content : IngestTexts]
        \cup [source_type : {"url"}, source_content : {<<>>, Url}]

\* admin.py lines 524, 526: text.strip() is empty
IsBlankText(txt) == split_into_sentences(txt) = <<>>

\* chunker.py lines 166-186: create_chunks, then the source on every chunk
chunk_text(txt, source) ==
    LET cs == create_chunks(txt)
    IN  [k \in DOMAIN cs |->
           [text |-> cs[k].text, index |-> cs[k].index,
            token_count |-> cs[k].token_count, source |-> source]]

\* the vector the embedding model computes for the text of a chunk
ChunkEmbedding(chunk) == IF chunk.text[1].c = "a" THEN 0 ELSE 2

\* embeddings.py line 138: str(uuid.uuid4()), n identifiers no point has
RECURSIVE FreshIds(_, _)
FreshIds(used, n) ==
    IF n = 0 THEN <<>>
    ELSE LET free == {i \in 1 .. Cardinality(used) + 1 : i \notin used}
             id == CHOOSE i \in free : \A k \in free : i <= k
         IN  <<id>> \o FreshIds(used \cup {id}, n - 1)

\* embeddings.py lines 135-148: the (point_id, embedding, payload) tuples
ChunkVectors(idx, cs) ==
    LET ids == FreshIds(DOMAIN idx, Len(cs))
    IN  [k \in DOMAIN cs |->
           [id |-> ids[k], vector |-> ChunkEmbedding(cs[k]),
            payload |-> [chunk_index |-> cs[k].index]]]

\* the handler answers with an HTTP status
Answered(f, code, detail) == [f EXCEPT !.pc = "done", !.status = code, !.detail = detail]

TextKnownDeletesFirst(f, txt, source, idx, deleted) ==
    LET cs == chunk_text(txt, source)
        g == [f EXCEPT !.text = txt, !.source = source, !.chunks = cs,
                       !.calls = Append(@, "delete")]
        cleared == DeletePoints(idx, f.bot_id)
    IN  IF ~deleted
        THEN [frame |-> Answered(g, 500, "Ingestion failed"), index |-> idx]
        ELSE IF IsBlankText(txt) \/ cs = <<>>
        THEN [frame |-> Answered(g, 400, "No content could be extracted"), index |-> cleared]
        ELSE [frame |-> [g EXCEPT !.pc = "embed", !.calls = Append(@, "embed")],
              index |-> cleared]
TextKnownNoClear(f, txt, source, idx, deleted) ==
    LET cs == chunk_text(txt, source)
        g == [f EXCEPT !.text = txt, !.source = source]
    IN  IF IsBlankText(txt)
        THEN [frame |-> Answered(g, 400, "No content could be extracted"), index |-> idx]
        ELSE IF cs = <<>>
        THEN [frame |-> Answered([g EXCEPT !.chunks = cs], 400,
                                 "Failed to create chunks from content"),
              index |-> idx]
        ELSE IF ~deleted
        THEN [frame |-> Answered([g EXCEPT !.chunks = cs, !.calls = Append(@, "delete")],
                                 500, "Ingestion failed"),
              index |-> idx]
        ELSE [frame |-> [g EXCEPT !.chunks = cs, !.pc = "embed",
                                  !.calls = @ \o <<"delete", "embed">>],
              index |-> idx]
\* admin.py lines 524-549: the text is known: reject it when blank, chunk it,
\* reject an empty list of chunks, delete the bot's vectors (which may
\* raise), and request the embeddings.  The result is the frame and the
\* collection.
TextKnown(f, txt, source, idx, deleted) ==
    LET cs == chunk_text(txt, source)
        g == [f EXCEPT !.text = txt, !.source = source]
    IN  IF IsBlankText(txt)
        THEN [frame |-> Answered(g, 400, "No content could be extracted"), index |-> idx]
        ELSE IF cs = <<>>
        THEN [frame |-> Answered([g EXCEPT !.chunks = cs], 400,
                                 "Failed to create chunks from content"),
              index |-> idx]
        ELSE IF ~deleted
        THEN [frame |-> Answered([g EXCEPT !.chunks = cs, !.calls = Append(@, "delete")],
                                 500, "Ingestion failed"),
              index |-> idx]
        ELSE [frame |-> [g EXCEPT !.chunks = cs, !.pc = "embed",
                                  !.calls = @ \o <<"delete", "embed">>],
              index |-> DeletePoints(idx, f.bot_id)]

\* the handler of an ingestion request has started and not yet answered
InProgress(f) == f.pc \notin {"idle", "done"}

\* POST /bots/{bot_id}/ingest arrives: the bot is selected
IngestArrive(j, b) ==
    /\ ingest[j].pc = "idle"
    /\ LET meets(k) == k # j /\ InProgress(ingest[k]) /\ ingest[k].bot_id = b
       IN  ingest' = [k \in Jobs |->
                        IF k = j
                        THEN [NoIngest EXCEPT !.pc = "select", !.bot_id = b,
                                              !.before = index,
                                              !.overlap = \E m \in Jobs : meets(m)]
                        ELSE IF meets(k) THEN [ingest[k] EXCEPT !.overlap = TRUE]
                        ELSE ingest[k]]
    /\ UNCHANGED <<rateVars, indexVars, chatVars, embedVars, chunkVars, promptVars>>

\* admin.py lines 471-522: the select returns no row (404), or a row without
\* source content (400), of a URL source (scrape_url is awaited), of a text
\* source (the text is the content), or of another type (400)
IngestSelect(j, row, deleted) ==
    /\ ingest[j].pc = "select"
    /\ LET f == ingest[j]
           next ==
               IF f.bot_id \notin Bots
               THEN [frame |-> Answered(f, 404, "Bot not found"), index |-> index]
               ELSE IF row.source_content = <<>>
               THEN [frame |-> Answered(f, 400, "Bot has no source content configured"),
                     index |-> index]
               ELSE IF row.source_type = "url"
               THEN [frame |-> [f EXCEPT !.pc = "scrape", !.source = "url",
                                         !.calls = Append(@, "scrape")],
                     index |-> index]
               ELSE IF row.source_type = "text"
               THEN TextKnown(f, row.source_content, "direct_input", index, deleted)
               ELSE [frame |-> Answered(f, 400, "Unsupported source type"), index |-> index]
       IN  /\ ingest' = [ingest EXCEPT ![j] = next.frame]
           /\ index' = next.index
    /\ UNCHANGED <<searchOut, lastDelete>>
    /\ UNCHANGED <<rateVars, chatVars, embedVars, chunkVars, promptVars>>

\* admin.py lines 501-510, 524-549: scrape_url returns a text
IngestScraped(j, txt, deleted) ==
    /\ ingest[j].pc = "scrape"
    /\ txt # <<>>
    /\ LET next == TextKnown(ingest[j], txt, "url", index, deleted)
       IN  /\ ingest' = [ingest EXCEPT ![j] = next.frame]
           /\ index' = next.index
    /\ UNCHANGED <<searchOut, lastDelete>>
    /\ UNCHANGED <<rateVars, chatVars, embedVars, chunkVars, promptVars>>

\* admin.py lines 503-507: scrape_url returns an error
IngestScrapeFail(j) ==
    /\ ingest[j].pc = "scrape"
    /\ ingest' = [ingest EXCEPT ![j] = Answered(@, 400, "Failed to scrape URL")]
    /\ UNCHANGED <<rateVars, indexVars, chatVars, embedVars, chunkVars, promptVars>>

\* embeddings.py lines 128-154, admin.py line 553: the embeddings arrive, one
\* per chunk; the points are built and upserted (which may raise); the commit
\* is awaited
IngestEmbedded(j, stored) ==
    /\ ingest[j].pc = "embed"
    /\ LET f == ingest[j]
           vectors == ChunkVectors(index, f.chunks)
       IN  IF stored
           THEN /\ index' = UpsertPoints(index, f.bot_id, vectors)
                /\ ingest' = [ingest EXCEPT ![j] =
                                 [f EXCEPT !.pc = "commit", !.vector_count = Len(vectors),
                                           !.calls = @ \o <<"upsert", "commit">>]]
           ELSE /\ index' = index
                /\ ingest' = [ingest EXCEPT ![j] =
                                 Answered([f EXCEPT !.calls = Append(@, "upsert")],
                                          500, "Ingestion failed")]
    /\ UNCHANGED <<searchOut, lastDelete>>
    /\ UNCHANGED <<rateVars, chatVars, embedVars, chunkVars, promptVars>>

\* embeddings.py lines 93-95, admin.py lines 568-573: the embeddings request
\* raises
IngestEmbedFail(j) ==
    /\ ingest[j].pc = "embed"
    /\ ingest' = [ingest EXCEPT ![j] = Answered(@, 500, "Ingestion failed")]
    /\ UNCHANGED <<rateVars, indexVars, chatVars, embedVars, chunkVars, promptVars>>

\* admin.py lines 553-563: the commit returns; the counts are reported
IngestCommit(j) ==
    /\ ingest[j].pc = "commit"
    /\ ingest' = [ingest EXCEPT ![j] =
                     Answered([@ EXCEPT !.chunk_count = Len(ingest[j].chunks)], 200,
                              "Successfully ingested content")]
    /\ UNCHANGED <<rateVars, indexVars, chatVars, embedVars, chunkVars, promptVars>>

\* admin.py lines 553, 568-573: the commit raises
IngestCommitFail(j) ==
    /\ ingest[j].pc = "commit"
    /\ ingest' = [ingest EXCEPT ![j] = Answered(@, 500, "Ingestion failed")]
    /\ UNCHANGED <<rateVars, indexVars, chatVars, embedVars, chunkVars, promptVars>>

\* one point of each bot is in the collection, left by earlier ingestions
IngestInit ==
    /\ now = 0 /\ rate_limit_cache = <<>>
    /\ admitted = [s \in Sessions |-> <<>>]
    /\ last = NoCall /\ everRejected = {} /\ nCalls = 0 /\ nTicks = 0
    /\ index = [i \in {1, 2} |->
                  [vector |-> 1,
                   payload |-> FullPayload(IF i = 1 THEN "A" ELSE "B", [chunk_index |-> 0])]]
    /\ searchOut = NoSearch
    /\ lastDelete = NoDelete
    /\ ChatIdle
    /\ ServicesIdle

IngestNext ==
    \/ \E j \in Jobs, b \in IngestBots : IngestArrive(j, b)
    \/ \E j \in Jobs, row \in BotRows, deleted \in BOOLEAN : IngestSelect(j, row, deleted)
    \/ \E j \in Jobs, txt \in IngestTexts, deleted \in BOOLEAN : IngestScraped(j, txt, deleted)
    \/ \E j \in Jobs : IngestScrapeFail(j)
    \/ \E j \in Jobs, stored \in BOOLEAN : IngestEmbedded(j, stored)
    \/ \E j \in Jobs : IngestEmbedFail(j)
    \/ \E j \in Jobs : IngestCommit(j)
    \/ \E j \in Jobs : IngestCommitFail(j)

SpecIngest == IngestInit /\ [][IngestNext]_vars

\* the steps of ingestion request j
IngestStep(j) ==
    \/ \E b \in IngestBots : IngestArrive(j, b)
    \/ \E row \in BotRows, deleted \in BOOLEAN : IngestSelect(j, row, deleted)
    \/ \E txt \in IngestTexts, deleted \in BOOLEAN : IngestScraped(j, txt, deleted)
    \/ IngestScrapeFail(j)
    \/ \E stored \in BOOLEAN : IngestEmbedded(j, stored)
    \/ IngestEmbedFail(j)
    \/ IngestCommit(j)
    \/ IngestCommitFail(j)

\* one re-ingestion, while chat turns search the collection
\* (chat_service.py lines 127-132)
ReingestNext ==
    \/ IngestStep(1)
    \/ \E b \in Bots, q \in Vectors, l \in SearchLimits, th \in SearchThresholds :
          SearchVectors(b, q, l, th)

SpecReingest == IngestInit /\ [][ReingestNext]_vars

\* ---------------------------------------------------------- prompt assembly
\* chat.py get_conversation_history, chat_service.py build_system_prompt and
\* build_messages

Digit == <<"0", "1", "2", "3", "4", "5", "6", "7", "8", "9">>
RECURSIVE Decimal(_)
Decimal(i) == IF i < 10 THEN Digit[i + 1] ELSE Decimal(i \div 10) \o Digit[(i % 10) + 1]

\* table messages with n rows: row i has its own content; with k = 2 the
\* second row belongs to another conversation; created_at grows with the row,
\* and with `ties` the two rows of one save_messages carry the same created_at
MessageTable(n, k, ties) ==
    [i \in 1 .. n |->
       [conversation_id |-> IF k = 2 /\ i = 2 THEN 1 ELSE 0,
        role |-> IF i % 2 = 1 THEN "user" ELSE "assistant",
        content |-> "m" \o Decimal(i),
        created_at |-> IF ties THEN (i + 1) \div 2 ELSE i]]

\* the result lists of retrieve_context: none, or one chunk
ContextLists ==
    {<<>>, <<[id |-> 1, score |-> 71, payload |-> FullPayload("A", [chunk_index |-> 0])]>>}

PromptInputs ==
    {[rows |-> MessageTable(n, k, ties), conversation_id |-> 0, question |-> q,
      bot_name |-> nm, context |-> ctx] :
        n \in 0 .. MaxRows, k \in 1 .. 2, ties \in BOOLEAN, q \in Questions,
        nm \in {"", "Ada"}, ctx \in ContextLists}

\* chat.py lines 124-125: the rows of the conversation (as indexes of the table)
ConversationRows(rows, conversation_id) ==
    {i \in DOMAIN rows : rows[i].conversation_id = conversation_id}

\* the first row of ORDER BY created_at DESC among the rows S: a newest row;
\* of rows with equal created_at the database returns either, here the later
\* or the earlier of the table
FirstDesc(rows, S, later) ==
    CHOOSE i \in S :
        \A k \in S \ {i} :
            \/ rows[i].created_at > rows[k].created_at
            \/ rows[i].created_at = rows[k].created_at /\ (IF later THEN i > k ELSE i < k)

FirstAsc(rows, S, later) ==
    CHOOSE i \in S :
        \A k \in S \ {i} :
            \/ rows[i].created_at < rows[k].created_at
            \/ rows[i].created_at = rows[k].created_at /\ (IF later THEN i > k ELSE i < k)

\* chat.py lines 126-127: .order_by(Message.created_at.desc()).limit(limit)
RECURSIVE OrderDescLimit(_, _, _, _)
OrderDescLimit(rows, S, limit, later) ==
    IF S = {} \/ limit = 0 THEN <<>>
    ELSE LET i == FirstDesc(rows, S, later)
         IN  <<rows[i]>> \o OrderDescLimit(rows, S \ {i}, limit - 1, later)

RECURSIVE OrderAscLimit(_, _, _, _)
OrderAscLimit(rows, S, limit, later) ==
    IF S = {} \/ limit = 0 THEN <<>>
    ELSE LET i == FirstAsc(rows, S, later)
         IN  <<rows[i]>> \o OrderAscLimit(rows, S \ {i}, limit - 1, later)

\* chat.py line 131: list(reversed(messages))
Reversed(seq) == [i \in 1 .. Len(seq) |-> seq[Len(seq) + 1 - i]]

get_conversation_historyOldest(rows, conversation_id, limit, later) ==
    OrderAscLimit(rows, ConversationRows(rows, conversation_id), limit, later)
\* chat.py lines 106-131: the newest `limit` rows of the conversation, oldest
\* first
get_conversation_history(rows, conversation_id, limit, later) ==
    Reversed(OrderDescLimit(rows, ConversationRows(rows, conversation_id), limit, later))

\* conversation_history[-MAX_CONVERSATION_HISTORY:]
LastN(seq, n) == SubSeq(seq, Len(seq) - Min(Len(seq), n) + 1, Len(seq))

\* chat_service.py lines 98-107: the system message, the last messages of the
\* history as role and content, the question (prompt is the content of the
\* system message, in its parts)
build_messages(system_prompt, conversation_history, current_question) ==
    LET recent == LastN(conversation_history, MAX_CONVERSATION_HISTORY)
    IN  <<[role |-> "system", prompt |-> system_prompt, content |-> "system prompt"]>>
        \o [i \in DOMAIN recent |->
              [role |-> recent[i].role, prompt |-> <<>>, content |-> recent[i].content]]
        \o <<[role |-> "user", prompt |-> <<>>, content |-> current_question]>>

\* chat.py line 284, chat_service.py lines 168-171: the history is loaded and
\* the message list of the completion request is built
AssemblePrompt(later) ==
    /\ ~prompt.called
    /\ prompt' =
          [called |-> TRUE,
           value |-> build_messages(
                         build_system_prompt(prompt_in.bot_name, prompt_in.context),
                         get_conversation_history(prompt_in.rows, prompt_in.conversation_id,
                                                  HISTORY_LIMIT, later),
                         prompt_in.question)]
    /\ UNCHANGED prompt_in
    /\ UNCHANGED <<rateVars, indexVars, chatVars, embedVars, chunkVars, ingestVars>>

\* a prompt is about to be assembled for a conversation with stored rows
PromptInit ==
    /\ CoreIdle
    /\ EmbedIdle
    /\ source_text = <<>> /\ chunks = NotCalled
    /\ IngestIdle
    /\ prompt_in \in PromptInputs
    /\ prompt = NotCalled

PromptNext == \E later \in BOOLEAN : AssemblePrompt(later)

SpecPrompt == PromptInit /\ [][PromptNext]_vars

\* ------------------------------------------------------------------ claims
\* the admitted timestamps of a history that lie in the 60 seconds before t
InWindow(hist, t) == SelectSeq(hist, LAMBDA ts : ts > t - RATE_LIMIT_WINDOW)

\* C1: a check_rate_limit call is admitted if and only if fewer than 10 calls
\* of its session were admitted in the preceding 60 seconds (less than 60
\* seconds before it); so the 11th call inside one window is rejected and a
\* call after the window has elapsed is admitted again.
C1_AdmitIffFewerThanMax ==
    last.s \in Sessions =>
        (last.allowed <=>
            Len(InWindow(last.before, last.t)) < MAX_MESSAGES_PER_WINDOW)

\* C1 witness: a session had ten calls admitted, was rejected after that, and
\* is admitted again once the window has elapsed.
C1_Witness ==
    /\ last.s \in Sessions
    /\ last.allowed
    /\ Len(last.before) >= MAX_MESSAGES_PER_WINDOW
    /\ last.s \in everRejected

\* C3: whatever upserts, searches and deletes the two tenants interleave,
\* every result of search_vectors(bot_id = T) is a point whose payload bot_id
\* is T.
C3_NoCrossTenantResult ==
    \A k \in DOMAIN searchOut.results :
        searchOut.results[k].payload.bot_id = searchOut.bot_id

\* C3 witness: a search for one tenant returned a point while the index also
\* held a point of the other tenant that scores at least as well.
C3_Witness ==
    /\ searchOut.results # <<>>
    /\ \E i \in DOMAIN index :
          /\ index[i].payload.bot_id # searchOut.bot_id
          /\ \E k \in DOMAIN searchOut.results :
                index[i].vector = index[searchOut.results[k].id].vector

\* ------------------------------------------------- the stream, as received
EndMarker == "data: [DONE]\n\n"
ErrorEvents == {"data: Error: " \o e \o "\n\n" : e \in Exceptions}
ApologyTexts == {"I apologize, but I encountered an error: " \o e : e \in Exceptions}
ApologyEvents == {"data: " \o t \o "\n\n" : t \in ApologyTexts}
IsErrorEvent(ev) == ev \in ErrorEvents
IsApologyEvent(ev) == ev \in ApologyEvents
\* the text fragments of a stream: its events other than the end marker and
\* the error-tagged event
Fragments(evs) == SelectSeq(evs, LAMBDA ev : ev # EndMarker /\ ~IsErrorEvent(ev))
FragmentTexts == {Piece(k) : k \in 1 .. MaxChunks} \cup ApologyTexts
FragmentEvents == {<<"data: " \o t \o "\n\n", t>> : t \in FragmentTexts}
\* the text a fragment event carries
TextOf(ev) == (CHOOSE f \in FragmentEvents : f[1] = ev)[2]
RECURSIVE Concat(_)
Concat(evs) == IF evs = <<>> THEN "" ELSE TextOf(Head(evs)) \o Concat(Tail(evs))
Occurrences(evs, ev) == Cardinality({i \in DOMAIN evs : evs[i] = ev})
Has(seq, x) == \E i \in DOMAIN seq : seq[i] = x
Terminal == {"finished", "finished_err"}
Rejected == {"rejected_quota", "rejected_rate"}
RowsOf(p, role) == {i \in DOMAIN messages : messages[i].turn = p /\ messages[i].role = role}
PairStored(p) == RowsOf(p, "user") # {} /\ RowsOf(p, "assistant") # {}

\* C2: with requests of one session in flight concurrently, in every
\* interleaving no 60-second window holds more than 10 admissions of a session,
\* and a request is rejected by the rate limiter only when 10 admissions of
\* its session lie in the 60 seconds before its check.
C2_ExactUnderConcurrency ==
    /\ \A s \in Sessions : \A i \in DOMAIN admitted[s] :
          Len(InWindow(SubSeq(admitted[s], 1, i), admitted[s][i]))
              <= MAX_MESSAGES_PER_WINDOW
    /\ \A p \in Turns :
          /\ pc[p] = "rejected_rate" =>
                Len(InWindow(trace[p].gate.before, trace[p].gate.t))
                    >= MAX_MESSAGES_PER_WINDOW
          /\ trace[p].gate.s # "none" /\ trace[p].gate.allowed =>
                Len(InWindow(trace[p].gate.before, trace[p].gate.t))
                    < MAX_MESSAGES_PER_WINDOW

\* C2 witness: two requests of one session were checked at the same instant
\* while both in flight; one took the tenth slot and the other was rejected.
C2_Witness ==
    \E p, q \in Turns :
        /\ p # q
        /\ req[p].session_id = req[q].session_id
        /\ trace[p].gate.s # "none" /\ trace[p].gate.allowed
        /\ trace[p].gate.t = trace[q].gate.t
        /\ pc[p] = "conv_select"
        /\ pc[q] = "rejected_rate"

\* C4: a request whose bot has message_count >= message_limit, or whose
\* session's window holds 10 admissions, is answered 429 and goes no further:
\* it issues no embedding, search or completion call, streams nothing, stores
\* no conversation and no message, and does not write message_count.
C4_RejectedDoesNothing ==
    \A p \in Turns :
        LET quota == trace[p].seen.message_count >= trace[p].seen.message_limit
            full == /\ trace[p].gate.s # "none"
                    /\ Len(InWindow(trace[p].gate.before, trace[p].gate.t))
                          >= MAX_MESSAGES_PER_WINDOW
        IN  /\ pc[p] \notin {"idle", "lookup", "gate"} /\ (quota \/ full) =>
                  pc[p] \in Rejected
            /\ pc[p] \in Rejected =>
                  /\ quota \/ full
                  /\ trace[p].calls = <<>>
                  /\ trace[p].wrote = <<>>
                  /\ events[p] = <<>>
                  /\ \A i \in DOMAIN messages : messages[i].turn # p
                  /\ \A c \in conversations : c.id # p

\* C4 witness: a request was rejected by the rate limiter while the other
\* request of its session went on to its stream.
C4_Witness ==
    \E p, q \in Turns :
        /\ pc[p] = "rejected_rate"
        /\ Has(trace[q].calls, "chat")

C6_OneEndMarkerLast ==
    \A p \in Turns :
        pc[p] \in Terminal =>
            LET evs == events[p]
                tagged == {i \in DOMAIN evs : IsErrorEvent(evs[i]) \/ IsApologyEvent(evs[i])}
            IN  /\ Occurrences(evs, EndMarker) = 1
                /\ evs[Len(evs)] = EndMarker
                /\ trace[p].failed # <<>> => Cardinality(tagged) = 1

\* C7: the stream of every admitted turn whose client stays connected
\* eventually carries the end marker, whichever calls fail.
C7_EventuallyEndMarker ==
    \A p \in Turns :
        (pc[p] = "embedding") ~> (pc[p] = "cancelled" \/ Has(events[p], EndMarker))

\* C7 witness: a turn whose persistence failed has ended with the end marker
\* in its stream.
C7_Witness ==
    \E p \in Turns :
        /\ pc[p] = "finished_err"
        /\ Has(trace[p].failed, "save")
        /\ Has(events[p], EndMarker)

\* C8: every stored assistant message is the concatenation, in emission
\* order, of the text fragments streamed for its turn, and every stored user
\* message is its request's message.
C8_StoredEqualsStreamed ==
    \A i \in DOMAIN messages :
        LET m == messages[i]
        IN  /\ m.role = "assistant" => m.content = Concat(Fragments(events[m.turn]))
            /\ m.role = "user" => m.content = req[m.turn].message

\* C8 witness: a stored assistant message whose turn streamed two fragments.
C8_Witness ==
    \E i \in DOMAIN messages :
        /\ messages[i].role = "assistant"
        /\ Len(Fragments(events[messages[i].turn])) >= 2

\* the user messages stored in the conversations of bot b
UserRowsOfBot(b) ==
    {i \in DOMAIN messages :
        /\ messages[i].role = "user"
        /\ \E c \in conversations : c.id = messages[i].conversation_id /\ c.bot_id = b}

\* C9: the store holds both messages of a turn or neither, and message_count
\* is written by a turn only after its pair is stored (so it never exceeds
\* the number of stored pairs of the bot).
C9_PairThenCount ==
    /\ \A p \in Turns :
          /\ (RowsOf(p, "user") # {}) <=> (RowsOf(p, "assistant") # {})
          /\ Has(trace[p].wrote, "count") => PairStored(p)
    /\ \A b \in Bots : message_count[b] <= Cardinality(UserRowsOfBot(b))

\* C9 witness: a turn has stored its pair and then written message_count.
C9_Witness ==
    \E p \in Turns :
        /\ PairStored(p)
        /\ trace[p].wrote[Len(trace[p].wrote)] = "count"
        /\ message_count[req[p].bot_id] = 1

\* C10 as claimed: a turn whose stream ran to the end marker after natural
\* model completion has its pair stored, even if a persistence attempt failed.
C10_AtLeastOnce ==
    \A p \in Turns :
        pc[p] \in Terminal /\ trace[p].ended = "natural" => PairStored(p)

\* C10 amended: persistence is at-most-once: such a turn has its pair stored
\* exactly once when its single persistence attempt succeeds and not at all
\* when that attempt fails (it is not retried).
C10_AtMostOnce ==
    \A p \in Turns :
        /\ Cardinality(RowsOf(p, "user")) <= 1
        /\ Cardinality(RowsOf(p, "assistant")) <= 1
        /\ pc[p] \in Terminal /\ trace[p].ended = "natural" =>
              (PairStored(p) <=> ~Has(trace[p].failed, "save"))

\* C10 witness: a turn completed naturally, its save failed, it ended, and
\* nothing of it is stored.
C10_Witness ==
    \E p \in Turns :
        /\ pc[p] = "finished_err"
        /\ trace[p].ended = "natural"
        /\ Has(trace[p].failed, "save")
        /\ ~PairStored(p)
\* C11: a turn whose caller disconnected while fragments were still being
\* streamed (its generation had neither completed nor failed) has no message
\* stored and has not written message_count.
C11_DisconnectPersistsNothing ==
    \A p \in Turns :
        pc[p] = "cancelled" /\ trace[p].ended = "no" =>
            /\ RowsOf(p, "user") = {} /\ RowsOf(p, "assistant") = {}
            /\ ~Has(trace[p].wrote, "messages")
            /\ ~Has(trace[p].wrote, "count")

\* C11 witness: the caller disconnected after a fragment had been streamed
\* and before the generation ended.
C11_Witness ==
    \E p \in Turns :
        /\ pc[p] = "cancelled"
        /\ trace[p].ended = "no"
        /\ Fragments(events[p]) # <<>>
\* C12: the message pair is stored and message_count written only by turns
\* whose generation ran to natural completion; a turn whose generation was
\* aborted by a provider failure stores nothing and is not counted.
C12_OnlyNaturalCompletionPersists ==
    \A p \in Turns :
        RowsOf(p, "user") # {} \/ RowsOf(p, "assistant") # {} \/ Has(trace[p].wrote, "count") =>
            trace[p].ended = "natural"
\* C13: the quota is consulted before the rate window: the step that rejects
\* a request because message_count >= message_limit has not run the rate
\* check and leaves the rate-limit cache (every session's recorded
\* timestamps) as it was.
C13_QuotaRejectTakesNoSlot ==
    [][\A p \in Turns :
          pc[p] # "rejected_quota" /\ pc'[p] = "rejected_quota" =>
              /\ rate_limit_cache' = rate_limit_cache
              /\ trace'[p].gate.s = "none"]_vars

\* C13 witness: a request was rejected by the quota while its session's window
\* held one timestamp, so a slot was free and was not taken.
C13_Witness ==
    \E p \in Turns :
        /\ pc[p] = "rejected_quota"
        /\ Len(CacheGet(rate_limit_cache, req[p].session_id)) = 1
        /\ admitted[req[p].session_id] = CacheGet(rate_limit_cache, req[p].session_id)
\* C14: generate_embeddings(texts) either returns exactly one vector per
\* text, vector i being the embedding of texts[i], or raises and returns
\* nothing: never a shorter, longer or partial list.
C14_AllVectorsOrRaise ==
    /\ embed_pc = "returned" =>
          /\ Len(embed_result) = Len(texts)
          /\ \A j \in DOMAIN texts : embed_result[j] = Embedding(texts[j])
    /\ embed_pc = "raised" => embed_result = <<>>

\* C14 witness: a list of more than two full batches was embedded and returned.
C14_Witness ==
    /\ embed_pc = "returned"
    /\ Len(texts) > 2 * BATCH_SIZE
    /\ Len(embed_result) = Len(texts)
\* C15: every upsert_vectors(bot_id, vectors) call leaves each point it
\* wrote with a payload whose bot_id is the call's bot_id argument, whatever
\* keys the caller's payload holds.
C15_PayloadCarriesCallersBot ==
    [][\A b \in Bots, vs \in VectorLists :
          UpsertVectors(b, vs) =>
              \A k \in DOMAIN vs : index'[vs[k].id].payload.bot_id = b]_vars
\* C16: delete_vectors(T) removes every point whose bot_id is T and leaves
\* every other point as it was; with no point of T it changes nothing (and
\* does not raise).
C16_DeleteOnlyOwnPoints ==
    lastDelete.bot_id # "none" =>
        LET before == lastDelete.before
            others == {i \in DOMAIN before : before[i].payload.bot_id # lastDelete.bot_id}
        IN  /\ DOMAIN index = others
            /\ \A i \in others : index[i] = before[i]
            /\ others = DOMAIN before => index = before

\* C16 witness: a delete for one tenant removed its point and left the other
\* tenant's point in the index.
C16_Witness ==
    /\ lastDelete.bot_id # "none"
    /\ \E i \in DOMAIN lastDelete.before :
          lastDelete.before[i].payload.bot_id = lastDelete.bot_id
    /\ index # <<>>
\* ------------------------------------------------- the chunks, as returned
\* the sentences of the text, numbered in source order
SourceSentences == Enumerated(split_into_sentences(source_text))
\* the source positions of the sentences of chunk k
Positions(k) == {chunks.value[k].text[j].pos : j \in DOMAIN chunks.value[k].text}
\* the first chunk that holds the sentence at position i (0: none)
FirstChunkOf(i) ==
    IF \E k \in DOMAIN chunks.value : i \in Positions(k)
    THEN CHOOSE k \in DOMAIN chunks.value :
            i \in Positions(k) /\ \A h \in 1 .. k - 1 : i \notin Positions(h)
    ELSE 0
IsOversized(sentence) == estimate_tokens(sentence.len) > CHUNK_SIZE

\* C17: every sentence of the text is in at least one chunk, the sentences
\* of each chunk are in source order, and over the chunks in index order the
\* first occurrences of the sentences follow source order.
C17_NoSentenceLostOrReordered ==
    chunks.called =>
        /\ \A i \in DOMAIN SourceSentences : FirstChunkOf(i) # 0
        /\ \A k \in DOMAIN chunks.value :
              LET t == chunks.value[k].text
              IN  /\ chunks.value[k].index = k - 1
                  /\ \A j \in DOMAIN t : t[j] = SourceSentences[t[j].pos]
                  /\ \A h, j \in DOMAIN t : h < j => t[h].pos < t[j].pos
        /\ \A h, i \in DOMAIN SourceSentences :
              h < i => FirstChunkOf(h) <= FirstChunkOf(i)

\* C17 witness: a text was chunked into several chunks, one of which repeats
\* a sentence of the chunk before it.
C17_Witness ==
    /\ chunks.called
    /\ Len(chunks.value) >= 3
    /\ \E k \in 1 .. Len(chunks.value) - 1 : Positions(k) \cap Positions(k + 1) # {}

\* C18 as claimed: whenever there are two or more chunks, each chunk after
\* the first begins with one or more of the trailing sentences of the chunk
\* before it.
C18_ConsecutiveChunksOverlap ==
    chunks.called =>
        \A k \in 1 .. Len(chunks.value) - 1 :
            LET a == chunks.value[k].text
                b == chunks.value[k + 1].text
            IN  \E n \in 1 .. Min(Len(a), Len(b)) :
                    SubSeq(b, 1, n) = SubSeq(a, Len(a) - n + 1, Len(a))

\* C18 amended: consecutive chunks share a sentence only when the last
\* sentence of the earlier chunk is of at most CHUNK_OVERLAP (50) estimated
\* tokens: the later chunk then begins with one or more sentences of the
\* earlier chunk, in their order and ending with its last sentence, followed
\* by new sentences; otherwise the later chunk holds later sentences only.
C18_OverlapWithinBudget ==
    chunks.called =>
        \A k \in 1 .. Len(chunks.value) - 1 :
            LET a == chunks.value[k].text
                b == chunks.value[k + 1].text
                last_a == a[Len(a)]
            IN  IF estimate_tokens(last_a.len) <= CHUNK_OVERLAP
                THEN \E n \in 1 .. Len(b) - 1 :
                        /\ \A j \in 1 .. n : b[j].pos \in Positions(k)
                        /\ b[n] = last_a
                        /\ \A j \in n + 1 .. Len(b) : b[j].pos > last_a.pos
                ELSE \A j \in DOMAIN b : b[j].pos > last_a.pos

\* C18 witness: of three chunks, the second begins with the last sentence of
\* the first and the third shares nothing with the second.
C18_Witness ==
    /\ chunks.called
    /\ Len(chunks.value) = 3
    /\ Positions(1) \cap Positions(2) # {}
    /\ Positions(2) \cap Positions(3) = {}

C20_OversizedSentenceAlone ==
    chunks.called =>
        \A i \in DOMAIN SourceSentences :
            IsOversized(SourceSentences[i]) =>
                /\ \E k \in DOMAIN chunks.value :
                      chunks.value[k].text = <<SourceSentences[i]>>
                /\ \A k \in DOMAIN chunks.value :
                      i \in Positions(k) => chunks.value[k].text = <<SourceSentences[i]>>
\* the estimated tokens of the i-th sentence of the text
TokensAt(i) == estimate_tokens(SourceSentences[i].len)
\* the target (500 tokens) holds any two consecutive sentences of the text
\* and no three
TargetHoldsTwo ==
    /\ \A i \in 1 .. 3 : TokensAt(i) + TokensAt(i + 1) <= CHUNK_SIZE
    /\ \A i \in 1 .. 2 : TokensAt(i) + TokensAt(i + 1) + TokensAt(i + 2) > CHUNK_SIZE
\* the overlap budget (50 tokens) holds the sentence that ends a chunk, s2
\* and s3, and not the one before it as well
OverlapHoldsOne ==
    \A i \in 2 .. 3 :
        TokensAt(i) <= CHUNK_OVERLAP /\ TokensAt(i) + TokensAt(i - 1) > CHUNK_OVERLAP

\* C21: a four-sentence text s1 s2 s3 s4 whose sentences go two to the target
\* and one to the overlap budget is chunked into 's1 s2', 's2 s3', 's3 s4',
\* with indices 0, 1, 2.
C21_TwoPerChunkOneOverlap ==
    chunks.called /\ TargetHoldsTwo /\ OverlapHoldsOne =>
        /\ Len(chunks.value) = 3
        /\ \A k \in 1 .. 3 :
              /\ chunks.value[k].index = k - 1
              /\ chunks.value[k].text = SubSeq(SourceSentences, k, k + 1)
\* the turns for bot b and session s that the rate limiter has admitted
AdmittedFor(b, s) ==
    {q \in Turns : /\ req[q].bot_id = b /\ req[q].session_id = s
                   /\ trace[q].gate.s = s /\ trace[q].gate.allowed}

\* C22: rate limits are isolated per tenant: whether a request to bot B is
\* admitted does not depend on the requests the same session_id made to bot A.
\* No request before those of the model addressed bot B, so a request to B is
\* rejected by the rate limiter only when 10 requests of its session to B
\* itself were admitted.
C22_RateLimitPerTenant ==
    \A p \in Turns :
        req[p].bot_id = "B" /\ pc[p] = "rejected_rate" =>
            Cardinality(AdmittedFor("B", req[p].session_id)) >= MAX_MESSAGES_PER_WINDOW
\* the instants of later checks: now, and now advanced by the clock's steps
LaterTimes == {now} \cup {now + d : d \in TickSteps} \cup {now + RATE_LIMIT_WINDOW}

\* C23: check_rate_limit(s) modifies only the list of session s: for every
\* other session t the presence and contents of its list are unchanged, and so
\* is the outcome a later check of t would have.
C23_OtherSessionsUntouched ==
    [][\A s \in Sessions : RateCall(s) =>
          \A t \in Sessions \ {s} :
              /\ (t \in DOMAIN rate_limit_cache') = (t \in DOMAIN rate_limit_cache)
              /\ CacheGet(rate_limit_cache', t) = CacheGet(rate_limit_cache, t)
              /\ admitted'[t] = admitted[t]
              /\ \A u \in LaterTimes :
                    IsAllowed(rate_limit_cache', t, u) = IsAllowed(rate_limit_cache, t, u)]_vars

\* C23 witness: a check of s1 was rejected with its list full while session
\* s2 holds a list of its own and is still admitted.
C23_Witness ==
    /\ last.s = "s1" /\ ~last.allowed
    /\ Len(CacheGet(rate_limit_cache, "s1")) = MAX_MESSAGES_PER_WINDOW
    /\ Len(CacheGet(rate_limit_cache, "s2")) > 0
    /\ IsAllowed(rate_limit_cache, "s2", now)
\* the calls to the vector index and to the embedding provider
IndexOrProviderCalls == {"delete", "embed", "upsert"}
\* the calls a frame has issued
CallsOf(f) == {f.calls[k] : k \in DOMAIN f.calls}
\* the text has no content: empty, white space only, or without chunks
NoContent(txt) == IsBlankText(txt) \/ chunk_text(txt, "") = <<>>
\* the step answers request j with 400 without a call to the index or to the
\* provider, and leaves the collection as it is
RejectedUntouched(j) ==
    /\ ingest'[j].pc = "done" /\ ingest'[j].status = 400
    /\ CallsOf(ingest'[j]) \cap IndexOrProviderCalls = {}
    /\ index' = index

\* C24: an ingestion whose source text is empty or white space only, or gives
\* no chunks, is answered with 400 before any call to the vector index or the
\* embedding provider: no deletion, no embedding request, no upsert, and the
\* points of the collection are unchanged.
C24_NoContentRejectedFirst ==
    [][\A j \in Jobs, deleted \in BOOLEAN :
          /\ \A row \in BotRows :
                (/\ IngestSelect(j, row, deleted)
                 /\ ingest[j].bot_id \in Bots
                 /\ (row.source_type = "text" \/ row.source_content = <<>>)
                 /\ NoContent(row.source_content)) => RejectedUntouched(j)
          /\ \A txt \in IngestTexts :
                IngestScraped(j, txt, deleted) /\ NoContent(txt) => RejectedUntouched(j)]_vars

\* C24 witness: a bot whose point is in the collection had an ingestion of a
\* white-space-only text rejected, and the point is still there.
C24_Witness ==
    \E j \in Jobs :
        /\ ingest[j].pc = "done" /\ ingest[j].status = 400
        /\ ingest[j].text = <<Blank>>
        /\ \E i \in DOMAIN index : index[i].payload.bot_id = ingest[j].bot_id
        /\ index = ingest[j].before
\* the rows of the conversation whose prompt is assembled
HistoryRows == ConversationRows(prompt_in.rows, prompt_in.conversation_id)
\* the number of history messages in the message list
HistoryCount == Min(Cardinality(HistoryRows), 10)
\* the row of the table that message k of the list was made from
RowOf(k) ==
    CHOOSE i \in DOMAIN prompt_in.rows :
        /\ prompt_in.rows[i].content = prompt.value[k].content
        /\ prompt_in.rows[i].role = prompt.value[k].role

\* C25: the message list sent to the generator is the system prompt, then the
\* newest messages of the conversation, at most 10, oldest first, then the
\* current question; its length is 1 + min(len(history), 10) + 1.
C25_SystemHistoryQuestion ==
    prompt.called =>
        LET sent == prompt.value
            picked == {RowOf(k) : k \in 2 .. Len(sent) - 1}
        IN  /\ Len(sent) = 1 + HistoryCount + 1
            /\ sent[1].role = "system"
            /\ sent[1].prompt = build_system_prompt(prompt_in.bot_name, prompt_in.context)
            /\ sent[Len(sent)].role = "user"
            /\ sent[Len(sent)].content = prompt_in.question
            /\ picked \subseteq HistoryRows
            /\ Cardinality(picked) = HistoryCount
            /\ \A i \in picked, o \in HistoryRows \ picked :
                  prompt_in.rows[o].created_at <= prompt_in.rows[i].created_at
            /\ \A k \in 2 .. Len(sent) - 2 :
                  prompt_in.rows[RowOf(k)].created_at <= prompt_in.rows[RowOf(k + 1)].created_at

\* C25 witness: the conversation has more than 10 messages beside those of
\* another conversation, and the list was built with 12 entries.
C25_Witness ==
    /\ prompt.called
    /\ Cardinality(HistoryRows) > 10
    /\ Cardinality(HistoryRows) < Len(prompt_in.rows)
    /\ Len(prompt.value) = 12
\* request p's search was issued and did not raise, and no chunk came back
RetrievedNothing(p) ==
    /\ Has(trace[p].calls, "search") /\ ~Has(trace[p].failed, "search")
    /\ trace[p].prompt.context_text = <<>>

\* C26: a retrieval that returns no context is no error: the completion is
\* requested with a system prompt that has no context section and carries the
\* fallback instruction, no retrieval failure is raised, and a turn that runs
\* to its end has its pair stored and its count written like any other.
C26_EmptyContextIsNoError ==
    \A p \in Turns :
        RetrievedNothing(p) =>
            /\ Has(trace[p].calls, "chat")
            /\ Has(trace[p].prompt.instructions, FallbackInstruction)
            /\ trace[p].prompt = build_system_prompt(req[p].bot_id, <<>>)
            /\ \A i \in DOMAIN events[p] :
                  events[p][i] \notin {ErrorEvent("embedding"), ErrorEvent("search")}
            /\ pc[p] = "finished" =>
                  /\ PairStored(p)
                  /\ Has(trace[p].wrote, "count")
                  /\ Has(events[p], DoneEvent)

\* C26 witness: a request to a bot whose only point is below the similarity
\* floor retrieved nothing, streamed a fragment, and finished with its pair
\* stored.
C26_Witness ==
    \E p \in Turns :
        /\ \E i \in DOMAIN index : index[i].payload.bot_id = req[p].bot_id
        /\ RetrievedNothing(p)
        /\ pc[p] = "finished"
        /\ PairStored(p)
        /\ Len(Fragments(events[p])) >= 1
\* the collection holds no point of bot b
NoPointsOf(b) == \A i \in DOMAIN index : index[i].payload.bot_id # b

\* C27: the stream of a chat request for a bot without ingested content
\* carries no text fragment other than the fixed fallback refusal.
C27_OnlyFallbackRefusal ==
    \A p \in Turns :
        req[p].bot_id \in Bots /\ NoPointsOf(req[p].bot_id) =>
            \A i \in DOMAIN events[p] :
                events[p][i] \in {Sse(FallbackRefusal), DoneEvent} \cup ErrorEvents
\* the loop's state before the sentence at position n of the text is met
LoopStateBefore(n) ==
    ChunkLoop([chunks |-> <<>>, current_chunk |-> <<>>, current_tokens |-> 0],
              SubSeq(SourceSentences, 1, n - 1))
\* the sentence at position n closes the current chunk
Overflows(n) ==
    LET st == LoopStateBefore(n)
    IN  /\ st.current_chunk # <<>>
        /\ st.current_tokens + TokensAt(n) > CHUNK_SIZE
\* the longest run of sentences at the end of a chunk whose estimates sum to
\* at most CHUNK_OVERLAP (50)
TrailingRun(current) ==
    LET fits == {n \in 0 .. Len(current) :
                    SumTokens(SubSeq(current, Len(current) - n + 1, Len(current)))
                        <= CHUNK_OVERLAP}
        n == CHOOSE m \in fits : \A k \in fits : k <= m
    IN  SubSeq(current, Len(current) - n + 1, Len(current))

\* C28: when a sentence overflows the current chunk, the next chunk starts
\* with exactly the longest trailing run of the closed chunk's sentences whose
\* estimates sum to at most 50, in order, followed by that sentence, and the
\* running token count is the sum of the estimates of exactly those
\* sentences; also with repeated sentences and sentences contained in others.
C28_SeedIsTrailingRun ==
    chunks.called =>
        \A n \in DOMAIN SourceSentences :
            Overflows(n) =>
                LET st == LoopStateBefore(n)
                    after == AddSentence(st, SourceSentences[n])
                IN  /\ after.current_chunk =
                          Append(TrailingRun(st.current_chunk), SourceSentences[n])
                    /\ after.current_tokens = SumTokens(after.current_chunk)
\* C29: every emitted chunk without a sentence of more than 500 estimated
\* tokens has a token_count, the estimate of its joined text, of at most
\* CHUNK_SIZE (500).
C29_TokenCountWithinTarget ==
    chunks.called =>
        \A k \in DOMAIN chunks.value :
            (\A j \in DOMAIN chunks.value[k].text : ~IsOversized(chunks.value[k].text[j]))
                => chunks.value[k].token_count <= CHUNK_SIZE
\* ceil(n / 100)
BatchCount(n) == (n + BATCH_SIZE - 1) \div BATCH_SIZE
\* the batches of generate_embeddings that have returned
BatchesDone == batch_start \div BATCH_SIZE

\* C30: generate_embeddings submits its N inputs as ceil(N/100) provider
\* calls of at most 100 consecutive inputs each, in input order and one at a
\* time: call k carries inputs 100(k-1)+1 .. min(100k, N) and is issued only
\* when call k-1 has returned; an empty list is no call, and after a failed
\* call no further call is issued.
C30_SequentialBatches ==
    /\ \A k \in DOMAIN requests :
          /\ Len(requests[k]) <= BATCH_SIZE
          /\ requests[k] =
                SubSeq(texts, BATCH_SIZE * (k - 1) + 1, Min(BATCH_SIZE * k, Len(texts)))
    /\ Len(requests) <= BatchCount(Len(texts))
    /\ texts = <<>> => requests = <<>>
    /\ embed_pc = "loop" => Len(requests) = BatchesDone + 1
    /\ embed_pc = "raised" => Len(requests) = BatchesDone + 1
    /\ embed_pc = "returned" =>
          Len(requests) = BatchCount(Len(texts)) /\ Len(requests) = BatchesDone

\* C30 witness: of a list of more than 200 inputs the second call failed, and
\* the third was never issued.
C30_Witness ==
    /\ embed_pc = "raised"
    /\ Len(texts) > 2 * BATCH_SIZE
    /\ Len(requests) = 2
\* the number of times timestamp ts occurs in a session's list
CountOf(list, ts) == Len(SelectSeq(list, LAMBDA x : x = ts))

\* C31: a rejected check_rate_limit call records no timestamp: the session's
\* list afterwards holds no timestamp more often than before, every timestamp
\* it lost is at least a window old, and the outcome of every later check of
\* the session is what it would have been without the rejected call.
C31_RejectedRecordsNothing ==
    [][\A s \in Sessions :
          (RateCall(s) /\ ~IsAllowed(rate_limit_cache, s, now)) =>
              LET old == CacheGet(rate_limit_cache, s)
                  new == CacheGet(rate_limit_cache', s)
              IN  /\ Len(new) <= Len(old)
                  /\ \A ts \in 0 .. now :
                        /\ CountOf(new, ts) <= CountOf(old, ts)
                        /\ CountOf(new, ts) < CountOf(old, ts) =>
                               now - ts >= RATE_LIMIT_WINDOW
                  /\ admitted' = admitted
                  /\ \A u \in LaterTimes :
                        IsAllowed(rate_limit_cache', s, u) = IsAllowed(rate_limit_cache, s, u)]_vars

\* C31 witness: after time has passed, a check of session s1 was rejected
\* and its list still holds exactly the ten admitted timestamps.
C31_Witness ==
    /\ last.s = "s1" /\ ~last.allowed /\ last.t > 0
    /\ Len(last.before) = MAX_MESSAGES_PER_WINDOW
    /\ rate_limit_cache["s1"] = last.before

\* C32: a timestamp recorded exactly 60 seconds before a check is still
\* counted: a call is admitted if and only if fewer than 10 calls of its
\* session were admitted at most 60 seconds before it.
C32_BoundaryStillCounted ==
    last.s \in Sessions =>
        (last.allowed <=>
            Len(SelectSeq(last.before, LAMBDA ts : ts >= last.t - RATE_LIMIT_WINDOW))
                < MAX_MESSAGES_PER_WINDOW)
\* the points of bot b in a collection
PointsOf(idx, b) == {i \in DOMAIN idx : idx[i].payload.bot_id = b}

\* the points of bot b are one point per chunk of cs, with the chunk's
\* position as chunk_index and the chunk's embedding as vector
OnePointPerChunk(idx, b, cs) ==
    /\ Cardinality(PointsOf(idx, b)) = Len(cs)
    /\ \A k \in DOMAIN cs :
          \E i \in PointsOf(idx, b) :
              /\ idx[i].payload.chunk_index = k - 1
              /\ idx[i].vector = ChunkEmbedding(cs[k])

\* C33: when an ingestion for a bot completes successfully and no other
\* ingestion of that bot was in progress during it, the bot's points are
\* exactly one point per chunk of this ingestion (chunk_index 0..n-1, each
\* once), no earlier point of the bot remains, and the reported chunk count
\* equals the reported vector count.
C33_IngestionReplacesPoints ==
    [][\A j \in Jobs :
          (IngestCommit(j) /\ ~ingest[j].overlap) =>
              LET f == ingest'[j]
              IN  /\ f.status = 200
                  /\ f.chunks # <<>>
                  /\ OnePointPerChunk(index', f.bot_id, f.chunks)
                  /\ f.chunk_count = Len(f.chunks)
                  /\ f.chunk_count = f.vector_count]_vars

\* C33 witness: an ingestion of two chunks for bot A, which had a point
\* before, has completed alone with status 200.
C33_Witness ==
    \E j \in Jobs :
        /\ ingest[j].pc = "done" /\ ingest[j].status = 200
        /\ ~ingest[j].overlap
        /\ ingest[j].bot_id = "A"
        /\ PointsOf(ingest[j].before, "A") # {}
        /\ Len(ingest[j].chunks) = 2
        /\ Cardinality(PointsOf(index, "A")) = 2
PersistedTurns(b) ==
    {p \in Turns : /\ req[p].bot_id = b
                   /\ PairStored(p)
                   /\ Has(trace[p].wrote, "count")}

\* C35: no increment is lost: message_count of a bot, which started at 0, is
\* the number of its turns that completed persistence, in every interleaving.
C35_NoIncrementLost ==
    \A b \in Bots : message_count[b] = Cardinality(PersistedTurns(b))
\* the conversations stored for bot b and session s
ConversationsOf(b, s) == {c \in conversations : c.bot_id = b /\ c.session_id = s}

\* C36: after any interleaving of chat requests at most one Conversation
\* exists for each (bot_id, session_id) pair.
C36_OneConversationPerPair ==
    \A b \in Bots, s \in Sessions : Cardinality(ConversationsOf(b, s)) <= 1
\* the step taken answers ingestion request j with an error status
FailsHere(j) ==
    /\ InProgress(ingest[j])
    /\ ingest'[j].pc = "done"
    /\ ingest'[j].status # 200

\* the points of bot b in a collection, with their contents
ContentOf(idx, b) == [i \in PointsOf(idx, b) |-> idx[i]]

\* C37 as claimed: when an ingestion of a bot fails at any stage, with no
\* other ingestion of the bot in progress during it, the points the bot had
\* when the ingestion started are still present.
C37_FailureKeepsFormerPoints ==
    [][\A j \in Jobs :
          (FailsHere(j) /\ ~ingest'[j].overlap) =>
              ContentOf(index', ingest'[j].bot_id) =
                  ContentOf(ingest'[j].before, ingest'[j].bot_id)]_vars

\* C37 amended: the failing step itself changes no point.  With no other
\* ingestion of the bot in progress during it, the bot's former points are
\* all present if the ingestion failed before its vectors were cleared (bot
\* lookup, scraping, blank text, chunking, or the clearing itself); the bot
\* has no point at all if it failed at the embedding request or at the
\* upsert; and the bot has the new points, one per chunk, if it failed at the
\* final commit.
C37_FailureAfterClearLosesPoints ==
    [][\A j \in Jobs :
          FailsHere(j) =>
              LET f == ingest'[j]
              IN  /\ index' = index
                  /\ ~f.overlap =>
                        IF ~Has(f.calls, "embed")
                        THEN ContentOf(index', f.bot_id) = ContentOf(f.before, f.bot_id)
                        ELSE IF ~Has(f.calls, "commit")
                        THEN PointsOf(index', f.bot_id) = {}
                        ELSE OnePointPerChunk(index', f.bot_id, f.chunks)]_vars

\* C37 witness: an ingestion for bot A, alone, failed at the embedding
\* request; bot A had a point before and has none now.
C37_Witness ==
    \E j \in Jobs :
        /\ ingest[j].pc = "done" /\ ingest[j].status = 500
        /\ ~ingest[j].overlap
        /\ ingest[j].bot_id = "A"
        /\ Has(ingest[j].calls, "embed") /\ ~Has(ingest[j].calls, "upsert")
        /\ PointsOf(ingest[j].before, "A") # {}
        /\ PointsOf(index, "A") = {}
\* ingestion request j has completed successfully
Succeeded(j) == ingest[j].pc = "done" /\ ingest[j].status = 200

\* C38: after two ingestions of one bot that were in progress together have
\* both completed, the bot's points are exactly the chunks of one of the two
\* (one point per chunk), never the union of both.
C38_InterleavedIngestionsOneWins ==
    \A j, k \in Jobs :
        (/\ j # k
         /\ Succeeded(j) /\ Succeeded(k)
         /\ ingest[j].bot_id = ingest[k].bot_id
         /\ ingest[j].overlap /\ ingest[k].overlap) =>
            \/ OnePointPerChunk(index, ingest[j].bot_id, ingest[j].chunks)
            \/ OnePointPerChunk(index, ingest[k].bot_id, ingest[k].chunks)
\* a search result without its point ids: the score and payload of each hit
Stripped(results) ==
    [k \in DOMAIN results |-> [score |-> results[k].score, payload |-> results[k].payload]]

\* the lists a search may return on collection idx, without point ids
ObservedOn(idx, b, q, l, th) == {Stripped(r) : r \in SearchResults(idx, b, q, l, th)}

\* the complete set of points an ingestion of chunks cs gives bot b
NewPoints(b, cs) ==
    [k \in DOMAIN cs |->
       [vector |-> ChunkEmbedding(cs[k]),
        payload |-> [chunk_index |-> k - 1, bot_id |-> b]]]

\* search_vectors for bot b runs while ingestion request 1, for the same bot,
\* is in progress
SearchDuringIngestion(b, q, l, th) ==
    /\ SearchVectors(b, q, l, th)
    /\ InProgress(ingest[1])
    /\ ingest[1].bot_id = b

\* C39 as claimed: a search for a bot that runs during a re-ingestion of the
\* bot returns what it would return on the bot's complete set of points from
\* before the re-ingestion or on the complete set from after it, never what
\* an empty or partial set would give.
C39_SearchSeesBeforeOrAfter ==
    [][\A b \in Bots, q \in Vectors, l \in SearchLimits, th \in SearchThresholds :
          SearchDuringIngestion(b, q, l, th) =>
              Stripped(searchOut'.results) \in
                  ObservedOn(ingest[1].before, b, q, l, th)
                      \cup ObservedOn(NewPoints(b, ingest[1].chunks), b, q, l, th)]_vars

\* C39 amended: such a search sees the bot's complete former set until the
\* old vectors are cleared, no point at all from the clearing until the
\* upsert, and the complete new set after the upsert; never a partial set.
C39_SearchSeesEmptyInBetween ==
    [][\A b \in Bots, q \in Vectors, l \in SearchLimits, th \in SearchThresholds :
          SearchDuringIngestion(b, q, l, th) =>
              LET f == ingest[1]
                  seen == Stripped(searchOut'.results)
              IN  CASE f.pc \in {"select", "scrape"} ->
                           seen \in ObservedOn(f.before, b, q, l, th)
                    [] f.pc = "embed" -> seen = <<>>
                    [] f.pc = "commit" ->
                           seen \in ObservedOn(NewPoints(b, f.chunks), b, q, l, th)]_vars

\* C39 witness: a search for bot A returned nothing while the re-ingestion of
\* bot A, which had a point before, was between clearing and upsert.
C39_Witness ==
    /\ searchOut.bot_id = "A" /\ searchOut.results = <<>>
    /\ ingest[1].bot_id = "A" /\ ingest[1].pc = "embed"
    /\ PointsOf(ingest[1].before, "A") # {}
\* the retrieval of turn p raised: the query embedding or the vector search
RetrievalRaised(p) ==
    Has(trace[p].failed, "embedding") \/ Has(trace[p].failed, "search")

\* C40: when retrieval raises during an admitted chat turn, no message of the
\* turn is stored and message_count is what the turn found, while the
\* timestamp its rate check recorded is still in the session's list: the
\* list holds it in addition to the earlier admissions of the window, and
\* counts it against the next request.
C40_FailedTurnKeepsItsSlot ==
    \A p \in Turns :
        RetrievalRaised(p) =>
            LET g == trace[p].gate
                list == CacheGet(rate_limit_cache, req[p].session_id)
            IN  /\ g.allowed /\ g.s = req[p].session_id
                /\ RowsOf(p, "user") = {} /\ RowsOf(p, "assistant") = {}
                /\ ~Has(trace[p].wrote, "count")
                /\ message_count[req[p].bot_id] = trace[p].seen.message_count
                /\ CountOf(list, g.t) = CountOf(InWindow(g.before, g.t), g.t) + 1
                /\ Len(list) = Len(InWindow(g.before, g.t)) + 1
                /\ IsAllowed(rate_limit_cache, req[p].session_id, now) <=>
                       Len(InWindow(g.before, g.t)) + 1 < MAX_MESSAGES_PER_WINDOW

\* C40 witness: a turn that took the tenth slot of its session's window had
\* its vector search raise and ended; the session is now blocked.
C40_Witness ==
    \E p \in Turns :
        /\ pc[p] = "finished_err"
        /\ Has(trace[p].failed, "search")
        /\ Len(trace[p].gate.before) = MAX_MESSAGES_PER_WINDOW - 1
        /\ ~IsAllowed(rate_limit_cache, req[p].session_id, now)
====
